---- MODULE Spec2Model ----
(***************************************************************************)
(* Model of the analysis engines of the Indian Legal Document Analyzer:    *)
(* ContractRiskAnalyzer, CitationAnalyzer and LegalDocumentComparison.     *)
(*                                                                         *)
(* Texts are strings; a character is a string of length 1.  The engines    *)
(* are driven by Python regular expressions, so the module first models    *)
(* the part of Python's re that the pattern tables use: Compile parses a   *)
(* pattern string (written here exactly as in the source, with the         *)
(* backslash doubled) and Match is the backtracking matcher.               *)
(***************************************************************************)
EXTENDS Integers, Sequences, FiniteSets, TLC

(***************************************************************************)
(* Characters                                                              *)
(***************************************************************************)
Ch(s, i) == SubSeq(s, i, i)

CharsOf(s) == {Ch(s, k) : k \in 1..Len(s)}

IndexIn(s, c) == CHOOSE k \in 1..Len(s) : Ch(s, k) = c

DigitStr == "0123456789"
UpperStr == "ABCDEFGHIJKLMNOPQRSTUVWXYZ"
LowerStr == "abcdefghijklmnopqrstuvwxyz"

DigitChars == CharsOf(DigitStr)
UpperChars == CharsOf(UpperStr)
LowerChars == CharsOf(LowerStr)
WordChars == DigitChars \cup UpperChars \cup LowerChars \cup {"_"}
SpaceChars == {" ", "\t", "\n", "\r", "\f"}

ToLower(c) == IF c # "" /\ c \in UpperChars THEN Ch(LowerStr, IndexIn(UpperStr, c)) ELSE c
ToUpper(c) == IF c # "" /\ c \in LowerChars THEN Ch(UpperStr, IndexIn(LowerStr, c)) ELSE c

\* str.lower(), by halves so that the recursion stays shallow
RECURSIVE StrLower(_)
StrLower(s) ==
  IF Len(s) <= 1 THEN ToLower(s)
  ELSE LET h == Len(s) \div 2 IN
       StrLower(SubSeq(s, 1, h)) \o StrLower(SubSeq(s, h + 1, Len(s)))

MinOf(a, b) == IF a <= b THEN a ELSE b
MaxOf(a, b) == IF a >= b THEN a ELSE b

Min(S) == CHOOSE m \in S : \A y \in S : m <= y
Max(S) == CHOOSE m \in S : \A y \in S : m >= y

\* str.strip(): leading and trailing whitespace removed
StrStrip(s) ==
  LET Keep(keep) == IF keep = {} THEN "" ELSE SubSeq(s, Min(keep), Max(keep))
  IN  Keep({k \in 1..Len(s) : Ch(s, k) \notin SpaceChars})

\* the characters c1..c2 of a range inside [...], digits and ASCII letters
CharRange(c1, c2) ==
  LET in(str) == c1 \in CharsOf(str) /\ c2 \in CharsOf(str)
      of(str) == {Ch(str, k) : k \in IndexIn(str, c1)..IndexIn(str, c2)}
  IN  IF in(DigitStr) THEN of(DigitStr)
      ELSE IF in(UpperStr) THEN of(UpperStr)
      ELSE IF in(LowerStr) THEN of(LowerStr)
      ELSE {c1, c2}

(***************************************************************************)
(* re.escape: every special character gets a backslash                     *)
(***************************************************************************)
EscapedChars ==
  {"(", ")", "[", "]", "{", "}", "?", "*", "+", "-", "|", "^", "$", "\\", ".",
   "&", "~", "#", " ", "\t", "\n", "\r", "\f"}

RECURSIVE ReEscape(_)
ReEscape(s) ==
  IF s = "" THEN ""
  ELSE IF Len(s) = 1 THEN (IF s \in EscapedChars THEN "\\" \o s ELSE s)
  ELSE LET h == Len(s) \div 2 IN
       ReEscape(SubSeq(s, 1, h)) \o ReEscape(SubSeq(s, h + 1, Len(s)))

(***************************************************************************)
(* The pattern parser (sre_parse).  A parse result is                      *)
(*   [ok, node, pos, ng]: success, the syntax tree, the next position in   *)
(* the pattern, and the number of capture groups opened so far.            *)
(* Nodes: lit (a run of literal characters), set (one character of a       *)
(* class), any (.), seq, alt, rep, grp, look (lookahead / lookbehind),     *)
(* wb (\b), bol (^), eol ($), eos (\Z).                                    *)
(***************************************************************************)
EmptyNode == [t |-> "seq", xs |-> <<>>]

ParseFail == [ok |-> FALSE, node |-> EmptyNode, pos |-> 0, ng |-> 0]

ParseOk(node, pos, ng) == [ok |-> TRUE, node |-> node, pos |-> pos, ng |-> ng]

SetNode(neg, cs) == [t |-> "set", neg |-> neg, cs |-> cs]

LitNode(str) == [t |-> "lit", str |-> str]

ClassOf(e) ==
  CASE e \in {"d", "D"} -> DigitChars
    [] e \in {"s", "S"} -> SpaceChars
    [] OTHER -> WordChars

\* a decimal number starting at p[i]: [val, pos, any]
RECURSIVE ParseNum(_, _, _, _)
ParseNum(p, i, val, any) ==
  IF i <= Len(p) /\ Ch(p, i) \in DigitChars
  THEN ParseNum(p, i + 1, 10 * val + (IndexIn(DigitStr, Ch(p, i)) - 1), TRUE)
  ELSE [val |-> val, pos |-> i, any |-> any]

\* the quantifier at p[i], if any: [q, lo, hi, pos]; hi = -1 is unbounded.
\* "{" that opens no well-formed {n}, {n,} or {n,m} is a literal character.
ParseQuant(p, i) ==
  LET none == [q |-> FALSE, lo |-> 0, hi |-> 0, pos |-> i]
      c == IF i <= Len(p) THEN Ch(p, i) ELSE ""
  IN  CASE c = "*" -> [q |-> TRUE, lo |-> 0, hi |-> -1, pos |-> i + 1]
        [] c = "+" -> [q |-> TRUE, lo |-> 1, hi |-> -1, pos |-> i + 1]
        [] c = "?" -> [q |-> TRUE, lo |-> 0, hi |-> 1, pos |-> i + 1]
        [] c = "{" ->
             LET Upper(n, m) ==
                   IF m.pos <= Len(p) /\ Ch(p, m.pos) = "}"
                   THEN [q |-> TRUE, lo |-> n.val,
                         hi |-> IF m.any THEN m.val ELSE -1, pos |-> m.pos + 1]
                   ELSE none
                 Lower(n) ==
                   LET c2 == IF n.pos <= Len(p) THEN Ch(p, n.pos) ELSE "" IN
                   IF c2 = "}" /\ n.any
                   THEN [q |-> TRUE, lo |-> n.val, hi |-> n.val, pos |-> n.pos + 1]
                   ELSE IF c2 = "," THEN Upper(n, ParseNum(p, n.pos + 1, 0, FALSE))
                   ELSE none
             IN  Lower(ParseNum(p, i + 1, 0, FALSE))
        [] OTHER -> none

\* the items of a character class from p[i] up to the closing "]"
RECURSIVE ParseClassItems(_, _, _, _)
ParseClassItems(p, i, cs, first) ==
  IF i > Len(p) THEN [ok |-> FALSE, cs |-> cs, pos |-> i]
  ELSE IF Ch(p, i) = "]" /\ ~first THEN [ok |-> TRUE, cs |-> cs, pos |-> i + 1]
  ELSE IF Ch(p, i) = "\\"
  THEN IF i + 1 > Len(p) THEN [ok |-> FALSE, cs |-> cs, pos |-> i]
       ELSE IF Ch(p, i + 1) \in {"d", "s", "w"}
       THEN ParseClassItems(p, i + 2, cs \cup ClassOf(Ch(p, i + 1)), FALSE)
       ELSE IF Ch(p, i + 1) = "n"
       THEN ParseClassItems(p, i + 2, cs \cup {"\n"}, FALSE)
       ELSE IF Ch(p, i + 1) = "t"
       THEN ParseClassItems(p, i + 2, cs \cup {"\t"}, FALSE)
       ELSE ParseClassItems(p, i + 2, cs \cup {Ch(p, i + 1)}, FALSE)
  ELSE IF i + 2 <= Len(p) /\ Ch(p, i + 1) = "-" /\ Ch(p, i + 2) # "]"
  THEN ParseClassItems(p, i + 3, cs \cup CharRange(Ch(p, i), Ch(p, i + 2)), FALSE)
  ELSE ParseClassItems(p, i + 1, cs \cup {Ch(p, i)}, FALSE)

ParseClass(p, i, ng) ==
  LET neg == i <= Len(p) /\ Ch(p, i) = "^"
      Items(r) == IF r.ok THEN ParseOk(SetNode(neg, r.cs), r.pos, ng) ELSE ParseFail
  IN  Items(ParseClassItems(p, IF neg THEN i + 1 ELSE i, {}, TRUE))

\* whether str stands in p at position i
StartsAt(p, i, str) ==
  i + Len(str) - 1 <= Len(p) /\ SubSeq(p, i, i + Len(str) - 1) = str

RECURSIVE ParseAlt(_, _, _)
RECURSIVE ParseSeq(_, _, _, _)
RECURSIVE ParseAtom(_, _, _)

\* "(" has been read at p[i-1]; the group's body and its ")"
GroupKind(p, i) ==
  CASE StartsAt(p, i, "?:") -> "plain"
    [] StartsAt(p, i, "?=") -> "ahead"
    [] StartsAt(p, i, "?!") -> "nahead"
    [] StartsAt(p, i, "?<=") -> "behind"
    [] StartsAt(p, i, "?<!") -> "nbehind"
    [] StartsAt(p, i, "?i)") -> "flag"
    [] StartsAt(p, i, "?") -> "bad"
    [] OTHER -> "capture"

ParseGroup(p, i, ng) ==
  LET Body(kind, b) ==
        CASE kind = "bad" -> ParseFail
          [] kind = "flag" -> ParseOk(EmptyNode, i + 3, ng)
          [] ~(b.ok /\ b.pos <= Len(p) /\ Ch(p, b.pos) = ")") -> ParseFail
          [] kind = "plain" -> ParseOk(b.node, b.pos + 1, b.ng)
          [] kind = "capture" ->
               ParseOk([t |-> "grp", n |-> ng + 1, x |-> b.node], b.pos + 1, b.ng)
          [] OTHER ->
               ParseOk([t |-> "look", ahead |-> kind \in {"ahead", "nahead"},
                        neg |-> kind \in {"nahead", "nbehind"}, x |-> b.node],
                       b.pos + 1, b.ng)
      Kind(kind) ==
        LET skip == CASE kind \in {"plain", "ahead", "nahead"} -> 2
                      [] kind \in {"behind", "nbehind"} -> 3
                      [] OTHER -> 0
        IN  Body(kind, ParseAlt(p, i + skip, IF kind = "capture" THEN ng + 1 ELSE ng))
  IN  Kind(GroupKind(p, i))

ParseEscape(p, i, ng) ==
  IF i > Len(p) THEN ParseFail
  ELSE LET e == Ch(p, i) IN
       CASE e \in {"d", "s", "w"} -> ParseOk(SetNode(FALSE, ClassOf(e)), i + 1, ng)
         [] e \in {"D", "S", "W"} -> ParseOk(SetNode(TRUE, ClassOf(e)), i + 1, ng)
         [] e = "b" -> ParseOk([t |-> "wb"], i + 1, ng)
         [] e = "Z" -> ParseOk([t |-> "eos"], i + 1, ng)
         [] e = "n" -> ParseOk(LitNode("\n"), i + 1, ng)
         [] e = "t" -> ParseOk(LitNode("\t"), i + 1, ng)
         [] e \in UpperChars \cup LowerChars \cup DigitChars -> ParseFail
         [] OTHER -> ParseOk(LitNode(e), i + 1, ng)

ParseAtom(p, i, ng) ==
  LET c == Ch(p, i) IN
  CASE c = "(" -> ParseGroup(p, i + 1, ng)
    [] c = "[" -> ParseClass(p, i + 1, ng)
    [] c = "\\" -> ParseEscape(p, i + 1, ng)
    [] c = "." -> ParseOk([t |-> "any"], i + 1, ng)
    [] c = "^" -> ParseOk([t |-> "bol"], i + 1, ng)
    [] c = "$" -> ParseOk([t |-> "eol"], i + 1, ng)
    [] c \in {"*", "+", "?"} -> ParseFail        \* nothing to repeat
    [] OTHER -> ParseOk(LitNode(c), i + 1, ng)

\* characters that end a run of plain literal characters
RunStoppers == CharsOf(".^$*+?{[\\|()")

\* the number of plain literal characters from p[i] on that form one lit
\* node: a character followed by a quantifier is left to be parsed alone
LitRun(p, i) ==
  LET plain(j) == j <= Len(p) /\ Ch(p, j) \notin RunStoppers
      End(e) == IF ParseQuant(p, e).q THEN MaxOf(0, e - 1 - i) ELSE e - i
  IN  End(CHOOSE j \in i..(Len(p) + 1) : ~plain(j) /\ \A k \in i..(j - 1) : plain(k))

\* a sequence of quantified atoms, up to "|", ")" or the end of the pattern
ParseSeq(p, i, ng, acc) ==
  IF i > Len(p) \/ Ch(p, i) \in {"|", ")"}
  THEN ParseOk([t |-> "seq", xs |-> acc], i, ng)
  ELSE LET \* consecutive literal characters form one lit node
           Add(item) ==
             IF item.t = "lit" /\ acc # <<>> /\ acc[Len(acc)].t = "lit"
             THEN [acc EXCEPT ![Len(acc)] = LitNode(acc[Len(acc)].str \o item.str)]
             ELSE Append(acc, item)
           Quantified(run, a, q) ==
             LET lazy == q.q /\ q.pos <= Len(p) /\ Ch(p, q.pos) = "?"
                 after == IF lazy THEN q.pos + 1 ELSE q.pos
             IN  IF q.q /\ (a.node.t \in {"wb", "bol", "eol", "eos"}
                            \/ ParseQuant(p, after).q)
                 THEN ParseFail                   \* nothing to repeat, multiple repeat
                 ELSE ParseSeq(p, IF run > 0 THEN a.pos ELSE after, a.ng,
                               Add(IF q.q
                                   THEN [t |-> "rep", x |-> a.node, lo |-> q.lo,
                                         hi |-> q.hi, lazy |-> lazy]
                                   ELSE a.node))
           Atom(run, a) ==
             IF ~a.ok THEN ParseFail
             ELSE Quantified(run, a, ParseQuant(p, IF run > 0 THEN Len(p) + 1 ELSE a.pos))
           Run(run) ==
             Atom(run, IF run > 0
                       THEN ParseOk(LitNode(SubSeq(p, i, i + run - 1)), i + run, ng)
                       ELSE ParseAtom(p, i, ng))
       IN  Run(LitRun(p, i))

ParseAlt(p, i, ng) ==
  LET Right(a, b) ==
        IF ~b.ok THEN ParseFail
        ELSE ParseOk([t |-> "alt", l |-> a.node, r |-> b.node], b.pos, b.ng)
      Left(a) ==
        IF ~a.ok THEN ParseFail
        ELSE IF a.pos <= Len(p) /\ Ch(p, a.pos) = "|"
        THEN Right(a, ParseAlt(p, a.pos + 1, a.ng))
        ELSE a
  IN  Left(ParseSeq(p, i, ng, <<>>))

\* re.compile: the whole pattern must be consumed (a stray ")" is an error)
Compile(p) ==
  LET Whole(r) == IF r.ok /\ r.pos = Len(p) + 1 THEN r ELSE ParseFail
  IN  Whole(ParseAlt(p, 1, 0))

(***************************************************************************)
(* The matcher: a backtracking search over a stack of nodes still to be    *)
(* matched, which is how sre matches: alternatives in order, greedy        *)
(* repeats longest first, lazy repeats shortest first.  Positions are      *)
(* 1-based; a capture is <<start, end>> for the characters start..end-1    *)
(* and <<0, 0>> while the group has not taken part in the match.           *)
(* fl is the flag record [i |-> IGNORECASE, s |-> DOTALL].                 *)
(***************************************************************************)
NoMatch == [ok |-> FALSE, start |-> 0, end |-> 0, caps |-> <<>>]

Flags(ic, dotall) == [i |-> ic, s |-> dotall]

IsWordAt(s, i) == i >= 1 /\ i <= Len(s) /\ Ch(s, i) \in WordChars

CharEq(a, b, fl) == a = b \/ (fl.i /\ ToLower(a) = ToLower(b))

CharInSet(c, node, fl) ==
  LET in == c \in node.cs
            \/ (fl.i /\ (ToLower(c) \in node.cs \/ ToUpper(c) \in node.cs))
  IN  in # node.neg

\* a node that consumes exactly one character, and whether it takes c
IsSingle(x) == x.t \in {"set", "any"} \/ (x.t = "lit" /\ Len(x.str) = 1)

Single(x, c, fl) ==
  CASE x.t = "set" -> CharInSet(c, x, fl)
    [] x.t = "any" -> fl.s \/ c # "\n"
    [] OTHER -> CharEq(c, x.str, fl)

\* how many characters from s[i] on the one-character node x takes in a row
RunLen(s, fl, x, i) ==
  LET ok(j) == j <= Len(s) /\ Single(x, Ch(s, j), fl)
      stop == CHOOSE j \in i..(Len(s) + 1) : ~ok(j) /\ \A k \in i..(j - 1) : ok(k)
  IN  stop - i

LitAt(s, fl, str, i) ==
  /\ i + Len(str) - 1 <= Len(s)
  /\ \A k \in 1..Len(str) : CharEq(Ch(s, i + k - 1), Ch(str, k), fl)

RECURSIVE Match(_, _, _, _, _)

\* a lookbehind holds at i when its body matches some s[j..i-1]
LookBehind(s, fl, x, i, caps) ==
  \E j \in 1..i : Match(s, fl, <<x, [t |-> "at", pos |-> i]>>, j, caps).ok

\* x{lo,hi} for a one-character x: the repeat counts in the order sre tries
\* them (longest first when greedy, shortest first when lazy), the first
\* count after which the rest of the pattern matches
MatchRun(s, fl, h, r, i, caps) ==
  LET Pick(ms, good) ==
        IF good = {} THEN NoMatch
        ELSE IF h.lazy THEN ms[Min(good)] ELSE ms[Max(good)]
      Rest(ms) == Pick(ms, {k \in DOMAIN ms : ms[k].ok})
      Counts(top) == Rest([k \in h.lo..top |-> Match(s, fl, r, i + k, caps)])
      Run(n) == Counts(IF h.hi = -1 \/ n < h.hi THEN n ELSE h.hi)
  IN  Run(RunLen(s, fl, h.x, i))

Match(s, fl, stack, i, caps) ==
  IF stack = <<>> THEN [ok |-> TRUE, start |-> 0, end |-> i, caps |-> caps]
  ELSE
  LET h == Head(stack)
      r == Tail(stack)
  IN
  CASE h.t = "lit" ->
         IF LitAt(s, fl, h.str, i)
         THEN Match(s, fl, r, i + Len(h.str), caps) ELSE NoMatch
    [] h.t \in {"set", "any"} ->
         IF i <= Len(s) /\ Single(h, Ch(s, i), fl)
         THEN Match(s, fl, r, i + 1, caps) ELSE NoMatch
    [] h.t = "seq" -> Match(s, fl, h.xs \o r, i, caps)
    [] h.t = "alt" ->
         LET First(m) == IF m.ok THEN m ELSE Match(s, fl, <<h.r>> \o r, i, caps)
         IN  First(Match(s, fl, <<h.l>> \o r, i, caps))
    [] h.t = "grp" ->
         Match(s, fl, <<h.x, [t |-> "close", n |-> h.n, from |-> i]>> \o r, i, caps)
    [] h.t = "close" -> Match(s, fl, r, i, [caps EXCEPT ![h.n] = <<h.from, i>>])
    [] h.t = "rep" ->
         IF IsSingle(h.x) THEN MatchRun(s, fl, h, r, i, caps)
         ELSE Match(s, fl, <<[t |-> "loop", x |-> h.x, lo |-> h.lo, hi |-> h.hi,
                              lazy |-> h.lazy, k |-> 0, last |-> 0]>> \o r, i, caps)
    [] h.t = "loop" ->
         \* k iterations done; an iteration that consumed nothing ends the loop
         LET canMore == (h.hi = -1 \/ h.k < h.hi) /\ (h.k <= h.lo \/ i # h.last)
             canStop == h.k >= h.lo
             Order(more, stop) ==
               IF h.lazy
               THEN IF canStop /\ stop.ok THEN stop
                    ELSE IF canMore THEN more ELSE NoMatch
               ELSE IF canMore /\ more.ok THEN more
                    ELSE IF canStop THEN stop ELSE NoMatch
         IN  Order(Match(s, fl, <<h.x, [h EXCEPT !.k = h.k + 1, !.last = i]>> \o r,
                         i, caps),
                   Match(s, fl, r, i, caps))
    [] h.t = "wb" ->
         IF IsWordAt(s, i - 1) # IsWordAt(s, i)
         THEN Match(s, fl, r, i, caps) ELSE NoMatch
    [] h.t = "bol" -> IF i = 1 THEN Match(s, fl, r, i, caps) ELSE NoMatch
    [] h.t = "eol" ->
         IF i = Len(s) + 1 \/ (i = Len(s) /\ Ch(s, i) = "\n")
         THEN Match(s, fl, r, i, caps) ELSE NoMatch
    [] h.t = "eos" -> IF i = Len(s) + 1 THEN Match(s, fl, r, i, caps) ELSE NoMatch
    [] h.t = "at" -> IF i = h.pos THEN Match(s, fl, r, i, caps) ELSE NoMatch
    [] h.t = "look" ->
         IF h.ahead
         THEN LET Ahead(m) ==
                    IF m.ok # h.neg
                    THEN Match(s, fl, r, i, IF h.neg THEN caps ELSE m.caps)
                    ELSE NoMatch
              IN  Ahead(Match(s, fl, <<h.x>>, i, caps))
         ELSE IF LookBehind(s, fl, h.x, i, caps) # h.neg
              THEN Match(s, fl, r, i, caps) ELSE NoMatch
    [] OTHER -> NoMatch

NoCaps(ng) == [k \in 1..ng |-> <<0, 0>>]

\* pattern.match at position i
MatchAt(re, s, fl, i) ==
  LET From(m) == IF m.ok THEN [m EXCEPT !.start = i] ELSE NoMatch
  IN  From(Match(s, fl, <<re.node>>, i, NoCaps(re.ng)))

\* Op(x), with x worked out once whatever use Op makes of it
Once(Op(_), x) == CHOOSE r \in {Op(v) : v \in {x}} : TRUE

\* the match at every start position of s
AllMatches(re, s, fl) == [j \in 1..(Len(s) + 1) |-> MatchAt(re, s, fl, j)]

\* re.finditer: the successive non-overlapping matches, left to right; each
\* is the match at the leftmost position, from the end of the previous one,
\* that has one (after an empty match the scan moves on by one character)
RECURSIVE FindIterFrom(_, _)
FindIterFrom(all, i) ==
  LET Next1(m) ==
        <<m>> \o FindIterFrom(all, IF m.end = m.start THEN m.end + 1 ELSE m.end)
      Hits(hits) == IF hits = {} THEN <<>> ELSE Once(Next1, all[Min(hits)])
  IN  Once(Hits, {j \in DOMAIN all : j >= i /\ all[j].ok})

FindIter(re, s, fl) == FindIterFrom(AllMatches(re, s, fl), 1)

\* re.search: the match at the leftmost position that has one
Search(re, s, fl) ==
  LET all == AllMatches(re, s, fl)
      Hits(hits) == IF hits = {} THEN NoMatch ELSE all[Min(hits)]
  IN  Once(Hits, {j \in DOMAIN all : all[j].ok})

\* match.group(0) and match.group(n); a group that did not take part is ""
Group0(s, m) == SubSeq(s, m.start, m.end - 1)

GroupN(s, m, n) ==
  IF m.caps[n][1] = 0 THEN "" ELSE SubSeq(s, m.caps[n][1], m.caps[n][2] - 1)

(***************************************************************************)
(* Small helpers on sequences and fractions                                *)
(***************************************************************************)
\* the elements of a sequence
Range(seq) == {seq[k] : k \in 1..Len(seq)}

\* the concatenation of a sequence of sequences
RECURSIVE Flatten(_)
Flatten(ss) == IF ss = <<>> THEN <<>> ELSE Head(ss) \o Flatten(Tail(ss))

\* str * n
RECURSIVE Repeat(_, _)
Repeat(str, n) == IF n = 0 THEN "" ELSE str \o Repeat(str, n - 1)

RECURSIVE SumSeq(_)
SumSeq(ns) == IF ns = <<>> THEN 0 ELSE Head(ns) + SumSeq(Tail(ns))

SelectIn(seq, S) == SelectSeq(seq, LAMBDA x : x \in S)

\* A Python number that is a quotient is kept exact, as numerator n over
\* denominator d > 0 (risk_score is total_score / len(risk_categories)).
Frac(n, d) == [n |-> n, d |-> d]
FracMinInt(k, f) == IF k * f.d <= f.n THEN Frac(k * f.d, f.d) ELSE f
FracAddInt(f, k) == Frac(f.n + k * f.d, f.d)
FracLtInt(f, k) == f.n < k * f.d
FracLeInt(f, k) == f.n <= k * f.d
FracGeInt(f, k) == f.n >= k * f.d
FracEq(f, g) == f.n * g.d = g.n * f.d

(***************************************************************************)
(* ContractRiskAnalyzer                                                    *)
(***************************************************************************)
\* self.risk_patterns, in the order the dict is written
RiskCategoryOrder ==
  <<"ambiguity", "one_sided_terms", "liability_issues", "missing_provisions",
    "termination_risks", "confidentiality_risks", "ip_risks">>

risk_patterns ==
  [ambiguity |->
     <<"may", "might", "could", "reasonable efforts", "commercially reasonable",
       "best efforts", "good faith", "timely manner", "promptly", "substantial",
       "material", "adequate", "appropriate", "suitable", "satisfactory">>,
   one_sided_terms |->
     <<"sole discretion", "unilateral", "unilaterally", "at any time",
       "without notice", "without cause", "without liability", "no liability",
       "shall not be liable", "in its discretion", "may determine">>,
   liability_issues |->
     <<"unlimited liability", "sole risk", "indemnify.*all", "indemnify.*any",
       "defend and hold harmless", "to the fullest extent",
       "unlimited indemnification", "including but not limited to",
       "for any reason">>,
   missing_provisions |-> <<>>,
   termination_risks |->
     <<"immediate termination", "without notice", "terminate immediately",
       "at its convenience", "without cause", "for any reason",
       "change of control">>,
   confidentiality_risks |->
     <<"perpetual confidentiality", "unlimited confidentiality", "forever",
       "no time limit", "without restriction", "sole property">>,
   ip_risks |->
     <<"assign all rights", "assign all intellectual property", "work for hire",
       "exclusively own", "transfer all", "irrevocably assign">>]

\* self.standard_provisions
standard_provisions ==
  <<"termination", "confidentiality", "intellectual property", "indemnification",
    "governing law", "dispute resolution", "force majeure", "assignment",
    "notices", "entire agreement">>

\* _get_provision_synonyms: synonyms.get(provision, [])
ProvisionSynonyms ==
  ("termination" :> <<"cancellation", "expiration", "discontinuance">>)
  @@ ("confidentiality" :>
        <<"non-disclosure", "private information", "proprietary information">>)
  @@ ("intellectual property" :> <<"ip rights", "copyrights", "patents", "trademarks">>)
  @@ ("indemnification" :> <<"indemnity", "hold harmless", "defend">>)
  @@ ("governing law" :> <<"applicable law", "jurisdiction", "choice of law">>)
  @@ ("dispute resolution" :> <<"arbitration", "mediation", "settlement of disputes">>)
  @@ ("force majeure" :> <<"act of god", "unforeseen circumstances", "beyond control">>)
  @@ ("assignment" :> <<"transfer of rights", "successors", "assigns">>)
  @@ ("notices" :> <<"notification", "communication">>)
  @@ ("entire agreement" :> <<"complete agreement", "integration", "merger clause">>)

\* a lookup that knows no synonym
NoSynonyms(provision) == <<>>

get_provision_synonyms(provision) ==
  IF provision \in DOMAIN ProvisionSynonyms THEN ProvisionSynonyms[provision] ELSE <<>>

\* any(c in pattern for c in ".*+?()[]{}|^$")
RegexMarkers == CharsOf(".*+?()[]{}|^$")

IsRegexPattern(pattern) == CharsOf(pattern) \cap RegexMarkers # {}

\* r'\b' + re.escape(pattern) + r'\b'
WholeWordPattern(pattern) == "\\b" \o ReEscape(pattern) \o "\\b"

\* the expression a risk pattern is searched with
RiskRegex(pattern) ==
  IF IsRegexPattern(pattern) THEN Compile(pattern)
  ELSE Compile(WholeWordPattern(pattern))

RiskCompiled ==
  [c \in DOMAIN risk_patterns |->
     [k \in 1..Len(risk_patterns[c]) |-> RiskRegex(risk_patterns[c][k])]]

\* characters of context kept on each side of a match
ContextChars == 50
\* points per match, and the caps of a category score and of the score
PointsPerMatch == 10
ScoreCap == 100
PointsPerMissing == 5
MissingCap == 20

\* the mutation: the context is the term alone
MatchRecordBare(text, m) == [term |-> Group0(text, m), context |-> Group0(text, m)]

\* the match record: the term and text[start:end] around it
MatchRecord(text, m) ==
  [term |-> Group0(text, m),
   context |-> SubSeq(text, MaxOf(1, m.start - ContextChars),
                      MinOf(Len(text), m.end - 1 + ContextChars))]

\* re.finditer(..., text, re.IGNORECASE) for one pattern, as match records
PatternMatches(text, re) ==
  LET Records(ms) == [k \in 1..Len(ms) |-> MatchRecord(text, ms[k])]
  IN  Records(FindIter(re, text, Flags(TRUE, FALSE)))

\* the matches list of a category: pattern after pattern
CategoryMatches(text, c) ==
  Flatten([k \in 1..Len(risk_patterns[c]) |-> PatternMatches(text, RiskCompiled[c][k])])

\* category_score * 10 without the cap
CategoryScoreUncapped(matches) == Len(matches) * PointsPerMatch

\* category_score: one per match appended, then min(100, category_score * 10)
CategoryScore(matches) ==
  LET category_score == Len(matches) IN
  MinOf(ScoreCap, category_score * PointsPerMatch)

\* re.search(r'\b' + re.escape(word) + r'\b', text_lower)
WordFound(word, text_lower) ==
  Search(Compile(WholeWordPattern(word)), text_lower, Flags(FALSE, FALSE)).ok

ProvisionFound(provision, text_lower) ==
  LET provision_lower == StrLower(provision)
      synonyms == get_provision_synonyms(provision_lower)
  IN  \/ WordFound(provision_lower, text_lower)
      \/ \E k \in 1..Len(synonyms) : WordFound(synonyms[k], text_lower)

find_missing_provisions(text) ==
  LET Missing(text_lower) ==
        SelectSeq(standard_provisions, LAMBDA p : ~ProvisionFound(p, text_lower))
  IN  Missing(StrLower(text))

\* the categories scored in the loop: all but missing_provisions
ScoredCategories == SelectSeq(RiskCategoryOrder, LAMBDA c : c # "missing_provisions")

ListedCategories == {"ambiguity", "one_sided_terms", "liability_issues"}

\* the increment for missing provisions without its cap of 20
risk_score_uncapped_increment(risk_categories, missing) ==
  LET total_score ==
        SumSeq([k \in 1..Len(ScoredCategories) |->
                  risk_categories[ScoredCategories[k]].score])
  IN  FracMinInt(ScoreCap,
        FracAddInt(FracMinInt(ScoreCap, Frac(total_score, Len(ScoredCategories))),
                   Len(missing) * PointsPerMissing))

risk_score_of(risk_categories, missing) ==
  IF DOMAIN risk_categories = {} THEN Frac(0, 1)
  ELSE LET total_score(cats) ==
             SumSeq([k \in 1..Len(cats) |-> risk_categories[cats[k]].score])
           Raised(mean) ==
             IF missing # <<>>
             THEN FracMinInt(ScoreCap,
                    FracAddInt(mean, MinOf(MissingCap, Len(missing) * PointsPerMissing)))
             ELSE mean
           Mean(cats) == Raised(FracMinInt(ScoreCap, Frac(total_score(cats), Len(cats))))
       IN  Mean(SelectIn(ScoredCategories, DOMAIN risk_categories))

analyze_contract(text) ==
  LET others == SelectSeq(ScoredCategories, LAMBDA c : c \notin ListedCategories)
      Result(found, risk_categories, missing) ==
        [risk_score |-> risk_score_of(risk_categories, missing),
         risk_categories |-> risk_categories,
         ambiguous_clauses |-> found["ambiguity"],
         one_sided_terms |-> found["one_sided_terms"],
         liability_issues |-> found["liability_issues"],
         missing_provisions |-> missing,
         other_issues |-> Flatten([k \in 1..Len(others) |-> found[others[k]]])]
      Scored(found) ==
        Result(found,
               [c \in DOMAIN found |->
                  [score |-> CategoryScore(found[c]), matches |-> Len(found[c])]],
               find_missing_provisions(text))
  IN  Scored([c \in {ScoredCategories[k] : k \in 1..Len(ScoredCategories)} |->
                CategoryMatches(text, c)])

\* the three messages of suggest_improvements for the risk score
LowRiskAdvice ==
  "This contract appears to have a relatively low risk profile, but consider reviewing the specific issues identified."
ModerateRiskAdvice ==
  "This contract has a moderate risk profile. Address the identified issues, especially any missing provisions and ambiguous terms."
HighRiskAdvice ==
  "This contract has a high risk profile. Consider comprehensive revision to address the numerous issues identified."

\* Bare numbers: the risk scores from which the profile is moderate, high
ModerateFrom == 30
HighFrom == 60

\* Bare number: how many ambiguous terms get a suggestion of their own
TopTerms == 3

\* the message for the score, with the bounds of the middle tier swapped
TierAdviceSwapped(risk_score) ==
  IF FracLtInt(risk_score, HighFrom) THEN LowRiskAdvice
  ELSE IF FracLtInt(risk_score, ModerateFrom) THEN ModerateRiskAdvice
  ELSE HighRiskAdvice

\* suggest_improvements: high-level advice based on risk score
TierAdvice(risk_score) ==
  IF FracLtInt(risk_score, ModerateFrom) THEN LowRiskAdvice
  ELSE IF FracLtInt(risk_score, HighFrom) THEN ModerateRiskAdvice
  ELSE HighRiskAdvice

\* the mutation: the suggestions for missing provisions come first
specific_suggestions_missing_first(a) ==
  [k \in 1..Len(a.missing_provisions) |->
     "Add a " \o a.missing_provisions[k]
       \o " provision to address this important area not currently covered in the contract."]
  \o [k \in 1..MinOf(TopTerms, Len(a.ambiguous_clauses)) |->
        "Replace ambiguous term '" \o a.ambiguous_clauses[k].term
          \o "' with more specific language defining exact obligations or timelines."]

\* suggestions["specific_suggestions"]: one per top ambiguous term, then one
\* per missing provision
specific_suggestions_of(a) ==
  [k \in 1..MinOf(TopTerms, Len(a.ambiguous_clauses)) |->
     "Replace ambiguous term '" \o a.ambiguous_clauses[k].term
       \o "' with more specific language defining exact obligations or timelines."]
  \o [k \in 1..Len(a.missing_provisions) |->
        "Add a " \o a.missing_provisions[k]
          \o " provision to address this important area not currently covered in the contract."]

\* ContractRiskAnalyzer.suggest_improvements
suggest_improvements(a) ==
  [general_advice |->
     <<TierAdvice(a.risk_score)>>
     \o (IF a.ambiguous_clauses # <<>>
         THEN <<"Replace ambiguous terms with specific, measurable obligations and deadlines.">>
         ELSE <<>>)
     \o (IF a.one_sided_terms # <<>>
         THEN <<"Review and negotiate one-sided terms to ensure more balanced risk allocation.">>
         ELSE <<>>)
     \o (IF a.liability_issues # <<>>
         THEN <<"Address liability concerns, especially any provisions for unlimited liability or overly broad indemnification.">>
         ELSE <<>>),
   specific_suggestions |-> specific_suggestions_of(a)]

(***************************************************************************)
(* CitationAnalyzer                                                        *)
(***************************************************************************)
\* the keys of self.patterns, in the order the dict holds them
CitationTypeOrder ==
  <<"case_citations", "statute_citations", "constitution_citations",
    "section_citations">>

\* self.patterns
patterns ==
  [case_citations |->
     <<"\\(\\d{4}\\)\\s+\\d+\\s+SCC\\s+\\d+",
       "\\d{4}\\s+\\(\\d+\\)\\s+SCC\\s+\\d+",
       "AIR\\s+\\d{4}\\s+SC\\s+\\d+",
       "\\(\\d{4}\\)\\s+\\d+\\s+SCR\\s+\\d+">>,
   statute_citations |->
     <<"(?:The\\s+)?([A-Z][a-z]+(?:\\s+[A-Z][a-z]+)*\\s+Act,?\\s+(?:of\\s+)?\\d{4})",
       "(?:The\\s+)?([A-Z][a-z]+(?:\\s+[A-Z][a-z]+)*\\s+Rules,?\\s+(?:of\\s+)?\\d{4})",
       "(?:The\\s+)?([A-Z][a-z]+(?:\\s+[A-Z][a-z]+)*\\s+Regulation,?\\s+(?:of\\s+)?\\d{4})">>,
   constitution_citations |->
     <<"[Aa]rticle\\s+(\\d+(?:\\(\\d+\\))?(?:\\([a-z]\\))?)",
       "[Aa]rticle\\s+(\\d+)(?:\\((\\d+)(?:\\(([a-z])\\))?)?\\)",
       "[Aa]rticle\\s+(\\d+(?:\\(\\d+\\))?(?:\\([a-z]\\))?)\\s+of\\s+the\\s+Constitution">>,
   section_citations |->
     <<"Section\\s+(\\d+(?:\\([a-z]\\))?)\\s+of\\s+the\\s+([A-Za-z\\s]+)",
       "under\\s+[Ss]ection\\s+(\\d+(?:\\([a-z]\\))?)">>]

CitationCompiled ==
  [c \in DOMAIN patterns |->
     [k \in 1..Len(patterns[c]) |-> Compile(patterns[c][k])]]

\* Op worked out once for each element of S
RECURSIVE Tabulated(_, _)
Tabulated(Op(_), S) ==
  IF S = {} THEN <<>>
  ELSE LET x == CHOOSE y \in S : TRUE
       IN  (x :> Op(x)) @@ Tabulated(Op, S \ {x})

\* " ".join(parts)
RECURSIVE JoinSpace(_)
JoinSpace(parts) ==
  IF parts = <<>> THEN ""
  ELSE IF Len(parts) = 1 THEN parts[1]
  ELSE parts[1] \o " " \o JoinSpace(Tail(parts))

\* the element re.findall returns for a match: the matched text when the
\* pattern has no group, the group's text when it has one, the tuple of
\* the groups' texts when it has more
FindAllItem(re, str, m) ==
  IF re.ng = 0 THEN Group0(str, m)
  ELSE IF re.ng = 1 THEN GroupN(str, m, 1)
  ELSE [g \in 1..re.ng |-> GroupN(str, m, g)]

\* isinstance(match, tuple): a string is no tuple, also the empty string
IsTuple(re) == re.ng > 1

\* the tuple's groups joined, the empty ones too
JoinAllGroups(re, str, m) ==
  IF IsTuple(re) THEN JoinSpace(FindAllItem(re, str, m)) ELSE FindAllItem(re, str, m)

\* the string appended to matches for one match
CitationString(re, str, m) ==
  IF IsTuple(re)
  THEN JoinSpace(SelectSeq(FindAllItem(re, str, m), LAMBDA g : g # ""))
  ELSE FindAllItem(re, str, m)

\* re.findall(pattern, text) turned into citation strings
PatternCitations(re, str) ==
  LET Strings(ms) == [k \in 1..Len(ms) |-> CitationString(re, str, ms[k])]
  IN  Strings(FindIter(re, str, Flags(FALSE, FALSE)))

\* the list kept as it is
KeepAll(items) == items

\* unique_matches: an item is appended unless it is in the list already
UniqueMatches(items) ==
  LET keep == {k \in 1..Len(items) : \A j \in 1..(k - 1) : items[j] # items[k]}
      nth(i) == CHOOSE k \in keep : Cardinality({j \in keep : j < k}) = i - 1
  IN  [i \in 1..Cardinality(keep) |-> items[nth(i)]]

\* matches of one citation type: pattern after pattern
TypeMatches(str, c) ==
  Flatten([k \in 1..Len(patterns[c]) |-> PatternCitations(CitationCompiled[c][k], str)])

\* a result that holds only the types that matched
extract_citations_nonempty(str) ==
  LET Found(all) == [c \in {d \in DOMAIN all : all[d] # <<>>} |-> all[c]]
  IN  Found([c \in DOMAIN patterns |-> UniqueMatches(TypeMatches(str, c))])

extract_citations(str) ==
  [c \in DOMAIN patterns |-> UniqueMatches(TypeMatches(str, c))]

(***************************************************************************)
(* build_citation_network.  The graph is a networkx DiGraph: nodes maps    *)
(* each node to its 'type' attribute and edges maps each ordered pair      *)
(* <<u, v>> that is an edge to its 'shared' attribute; a DiGraph holds at  *)
(* most one edge per ordered pair.                                         *)
(***************************************************************************)
NoAttr == "(none)"

\* nx.DiGraph()
EmptyGraph == [nodes |-> <<>>, edges |-> <<>>]

has_node(G, n) == n \in DOMAIN G.nodes

\* G.add_node(n, type=...): the attribute is set, also on a node that exists
add_node(G, n, type) == [G EXCEPT !.nodes = (n :> type) @@ G.nodes]

\* G.add_edge(u, v) and G.add_edge(u, v, shared=...): missing end nodes are
\* added without attributes; an edge that exists keeps its attributes but
\* for the ones given
add_edge(G, u, v, shared) ==
  [nodes |-> G.nodes @@ (u :> NoAttr) @@ (v :> NoAttr),
   edges |-> IF shared = NoAttr THEN G.edges @@ (<<u, v>> :> NoAttr)
             ELSE (<<u, v>> :> shared) @@ G.edges]

\* a dict, which keeps its keys in the order they were first set
EmptyDict == [order |-> <<>>, at |-> <<>>]

DictSet(d, key, val) ==
  [order |-> IF key \in DOMAIN d.at THEN d.order ELSE Append(d.order, key),
   at |-> (key :> val) @@ d.at]

\* metadata.get('filename', doc_id)
DocName(doc) ==
  IF "filename" \in DOMAIN doc.metadata THEN doc.metadata["filename"] ELSE doc.doc_id

\* f"{citation_type}:{citation}" for the citations of a document, in the
\* order of the nested loops over citations.items() and matches
CitationKeys(cits) ==
  Flatten([k \in 1..Len(CitationTypeOrder) |->
             [j \in 1..Len(cits[CitationTypeOrder[k]]) |->
                [type |-> CitationTypeOrder[k],
                 key |-> CitationTypeOrder[k] \o ":" \o cits[CitationTypeOrder[k]][j]]]])

\* the texts of the documents of the model: two with one case citation
\* each, two that share three citations, and one without citations
DocTexts ==
  {"AIR 2020 SC 5 ", "(2020) 5 SCC 123, ",
   "AIR 2020 SC 5 (2020) 5 SCC 123, Article 21, ",
   "Article 21, (2020) 5 SCC 123, AIR 2020 SC 5 ", ""}

\* self.extract_citations(text): a function of the text alone, which is
\* worked out once for each text of DocTexts
ExtractedCitations == [t \in DocTexts |-> extract_citations(t)]

citations_of(str) ==
  IF str \in DocTexts THEN ExtractedCitations[str] ELSE extract_citations(str)

\* the citation nodes of a document and the edges to them
RECURSIVE AddCitationNodes(_, _, _)
AddCitationNodes(G, doc_name, keys) ==
  IF keys = <<>> THEN G
  ELSE AddCitationNodes(
         add_edge(IF has_node(G, Head(keys).key) THEN G
                  ELSE add_node(G, Head(keys).key, Head(keys).type),
                  doc_name, Head(keys).key, NoAttr),
         doc_name, Tail(keys))

\* the first loop: [G, doc_citations] after the documents
RECURSIVE ReadDocuments(_, _, _)
ReadDocuments(G, doc_citations, docs) ==
  IF docs = <<>> THEN [G |-> G, doc_citations |-> doc_citations]
  ELSE LET Read(doc_name, cits) ==
             ReadDocuments(
               AddCitationNodes(add_node(G, doc_name, "document"), doc_name,
                                CitationKeys(cits)),
               DictSet(doc_citations, doc_name, cits),
               Tail(docs))
       IN  Read(DocName(Head(docs)), citations_of(Head(docs).text))

\* citation_to_docs as the list of <<citation_str, doc_name>> appended
CitationToDocs(doc_citations) ==
  Flatten([n \in 1..Len(doc_citations.order) |->
             LET Keys(keys) == [k \in 1..Len(keys) |-> <<keys[k].key, doc_citations.order[n]>>]
             IN  Keys(CitationKeys(doc_citations.at[doc_citations.order[n]]))])

\* the last loop with j running over all of citing_docs but i
CoCitationEdgesBothWays(pairs) ==
  LET keys == UniqueMatches([k \in 1..Len(pairs) |-> pairs[k][1]])
      citing(key) == LET Of(ps) == [k \in 1..Len(ps) |-> ps[k][2]]
                     IN  Of(SelectSeq(pairs, LAMBDA pr : pr[1] = key))
      Pairs(key, citing_docs) ==
        Flatten([i \in 1..Len(citing_docs) |->
                   SelectSeq([j \in 1..Len(citing_docs) |->
                                <<citing_docs[i], citing_docs[j], key>>],
                             LAMBDA e : e[1] # e[2])])
  IN  Flatten([k \in 1..Len(keys) |-> Pairs(keys[k], citing(keys[k]))])

\* the add_edge calls of the last loop, in order: <<u, v, shared>>
CoCitationEdges(pairs) ==
  LET keys == UniqueMatches([k \in 1..Len(pairs) |-> pairs[k][1]])
      citing(key) == LET Of(ps) == [k \in 1..Len(ps) |-> ps[k][2]]
                     IN  Of(SelectSeq(pairs, LAMBDA pr : pr[1] = key))
      Pairs(key, citing_docs) ==
        IF Len(citing_docs) > 1
        THEN Flatten([i \in 1..Len(citing_docs) |->
                        [j \in 1..(Len(citing_docs) - i) |->
                           <<citing_docs[i], citing_docs[i + j], key>>]])
        ELSE <<>>
  IN  Flatten([k \in 1..Len(keys) |-> Pairs(keys[k], citing(keys[k]))])

RECURSIVE AddEdges(_, _)
AddEdges(G, es) ==
  IF es = <<>> THEN G
  ELSE AddEdges(add_edge(G, Head(es)[1], Head(es)[2], Head(es)[3]), Tail(es))

build_citation_network(docs) ==
  LET Connect(r) == AddEdges(r.G, CoCitationEdges(CitationToDocs(r.doc_citations)))
  IN  Connect(ReadDocuments(EmptyGraph, EmptyDict, docs))

(***************************************************************************)
(* LegalDocumentComparison                                                 *)
(***************************************************************************)
\* self.common_sections
common_sections ==
  <<"confidentiality", "intellectual property", "termination", "indemnification",
    "liability", "payment", "term", "governing law", "dispute resolution",
    "warranties", "force majeure">>

CommonSectionNames == {common_sections[k] : k \in 1..Len(common_sections)}

\* the three header patterns of extract_section, built around section_name
SectionPatterns(section_name) ==
  <<"(?:SECTION|ARTICLE)\\s+\\d+(?:\\.\\d+)*\\s*\\.\\s*" \o section_name
      \o "\\s*\\n(.*?)(?:(?:SECTION|ARTICLE)\\s+\\d+(?:\\.\\d+)*\\s*\\.|$)",
    "\\d+(?:\\.\\d+)*\\s*\\.\\s*" \o section_name
      \o "\\s*\\n(.*?)(?:\\d+(?:\\.\\d+)*\\s*\\.|$)",
    "(?i)(?<!\\w)" \o ReEscape(section_name)
      \o "(?!\\w).*?\\n(.*?)(?=\\n\\s*\\n|\\n\\s*[A-Z]|\\Z)">>

\* the outcomes of extract_section: the section's text, None, or re.error
SectionText(str) == [status |-> "found", text |-> str]
SectionNone == [status |-> "none", text |-> ""]
SectionError == [status |-> "raise", text |-> ""]

\* the loop over patterns: the first pattern that matches decides; re.search
\* raises re.error for a pattern that does not compile
RECURSIVE TryPatterns(_, _)
TryPatterns(document, pats) ==
  IF pats = <<>> THEN SectionNone
  ELSE LET Found(m) ==
             IF ~m.ok THEN TryPatterns(document, Tail(pats))
             \* match.group(1) is None: None.strip() raises AttributeError
             ELSE IF m.caps[1][1] = 0 THEN SectionError
             ELSE SectionText(StrStrip(GroupN(document, m, 1)))
           Compiled(re) ==
             IF ~re.ok THEN SectionError
             ELSE Found(Search(re, document, Flags(TRUE, TRUE)))
       IN  Compiled(Compile(Head(pats)))

extract_section(document, section_name) ==
  TryPatterns(document, SectionPatterns(section_name))

\* section_pattern of _extract_all_sections, and the pattern of the next header
SectionHeader ==
  Compile("(?:SECTION|ARTICLE)\\s+(\\d+(?:\\.\\d+)*)\\s*\\.\\s*([A-Z][A-Z\\s]+)")

NextHeader == Compile("(?:SECTION|ARTICLE)\\s+\\d+(?:\\.\\d+)*\\s*\\.")

\* sub in str
Contains(str, sub) ==
  \E i \in 1..(Len(str) - Len(sub) + 1) : SubSeq(str, i, i + Len(sub) - 1) = sub

\* the text after a header match up to the next header, stripped
SectionContent(document, m) ==
  LET Upto(rest, next_section) ==
        StrStrip(IF next_section.ok THEN SubSeq(rest, 1, next_section.start - 1)
                 ELSE rest)
      Rest(rest) == Upto(rest, Search(NextHeader, rest, Flags(FALSE, FALSE)))
  IN  Rest(SubSeq(document, m.end, Len(document)))

\* the loop over the header matches: the section is stored under its title
\* and under every common section name the title contains
RECURSIVE HeaderSections(_, _, _)
HeaderSections(document, ms, sections) ==
  IF ms = <<>> THEN sections
  ELSE LET Store(section_title, section_content) ==
             [k \in {section_title}
                      \cup {c \in CommonSectionNames : Contains(section_title, c)} |->
                section_content] @@ sections
       IN  HeaderSections(document, Tail(ms),
             Store(StrLower(StrStrip(GroupN(document, Head(ms), 2))),
                   SectionContent(document, Head(ms))))

\* the mutation: the lookup by name is made for every common section and
\* what it finds replaces what the headings gave
ByNameOverwriting(document, sections) ==
  LET Named(found) ==
        [c \in {d \in DOMAIN found : found[d].status = "found" /\ found[d].text # ""} |->
           found[c].text]
  IN  Named([c \in CommonSectionNames |-> extract_section(document, c)]) @@ sections

\* the second loop: common sections not found by heading are looked up by
\* name and kept when the text is not empty
ByName(document, sections) ==
  LET Named(found) ==
        [c \in {d \in DOMAIN found : found[d].status = "found" /\ found[d].text # ""} |->
           found[c].text]
  IN  sections @@ Named([c \in CommonSectionNames \ DOMAIN sections |->
                           extract_section(document, c)])

extract_all_sections(document) ==
  ByName(document,
         HeaderSections(document, FindIter(SectionHeader, document, Flags(FALSE, FALSE)),
                        <<>>))

\* SequenceMatcher.find_longest_match on a[alo..ahi] and b[blo..bhi]: the
\* longest common block, of those the one that starts earliest in a, and
\* of those the one that starts earliest in b, as <<i, j, size>>
RECURSIVE CommonPrefix(_, _, _, _, _, _)
CommonPrefix(a, i, ahi, b, j, bhi) ==
  IF i > ahi \/ j > bhi THEN 0
  ELSE IF Ch(a, i) # Ch(b, j) THEN 0
  ELSE 1 + CommonPrefix(a, i + 1, ahi, b, j + 1, bhi)

find_longest_match(a, b, alo, ahi, blo, bhi) ==
  LET Pick(size) ==
        LET Longest(k) ==
              LET First(i) == <<i, Min({j \in blo..bhi : size[<<i, j>>] = k}), k>>
              IN  First(Min({i \in alo..ahi : \E j \in blo..bhi : size[<<i, j>>] = k}))
        IN  Longest(Max({size[x] : x \in DOMAIN size}))
  IN  Pick([x \in (alo..ahi) \X (blo..bhi) |-> CommonPrefix(a, x[1], ahi, b, x[2], bhi)])

\* the total size of get_matching_blocks: the longest block, then the same
\* to its left and to its right
RECURSIVE MatchingSize(_, _, _, _, _, _)
MatchingSize(a, b, alo, ahi, blo, bhi) ==
  IF alo > ahi \/ blo > bhi THEN 0
  ELSE LET Block(x) ==
             IF x[3] = 0 THEN 0
             ELSE x[3] + MatchingSize(a, b, alo, x[1] - 1, blo, x[2] - 1)
                       + MatchingSize(a, b, x[1] + x[3], ahi, x[2] + x[3], bhi)
       IN  Block(find_longest_match(a, b, alo, ahi, blo, bhi))

\* the ratio left on its scale of 0 to 1
calculate_similarity_as_ratio(text1, text2) ==
  IF Len(text1) + Len(text2) = 0 THEN Frac(1, 1)
  ELSE Frac(2 * MatchingSize(text1, text2, 1, Len(text1), 1, Len(text2)),
            Len(text1) + Len(text2))

\* difflib.SequenceMatcher(None, text1, text2).ratio() * 100: 2.0 * M / T,
\* and 1.0 when both texts are empty (texts shorter than the 200 characters
\* from which SequenceMatcher starts to treat popular characters as junk)
calculate_similarity(text1, text2) ==
  IF Len(text1) + Len(text2) = 0 THEN Frac(100, 1)
  ELSE Frac(200 * MatchingSize(text1, text2, 1, Len(text1), 1, Len(text2)),
            Len(text1) + Len(text2))

\* SequenceMatcher.get_matching_blocks before adjacent blocks are merged:
\* the longest block, with the blocks to its left before it and the blocks
\* to its right after it
RECURSIVE MatchingBlocks(_, _, _, _, _, _)
MatchingBlocks(a, b, alo, ahi, blo, bhi) ==
  IF alo > ahi \/ blo > bhi THEN <<>>
  ELSE LET Block(x) ==
             IF x[3] = 0 THEN <<>>
             ELSE MatchingBlocks(a, b, alo, x[1] - 1, blo, x[2] - 1)
                    \o <<x>>
                    \o MatchingBlocks(a, b, x[1] + x[3], ahi, x[2] + x[3], bhi)
       IN  Block(find_longest_match(a, b, alo, ahi, blo, bhi))

\* adjacent blocks are merged into one; cur is the block being grown
RECURSIVE NonAdjacent(_, _)
NonAdjacent(blocks, cur) ==
  IF blocks = <<>> THEN (IF cur[3] > 0 THEN <<cur>> ELSE <<>>)
  ELSE IF cur[1] + cur[3] = Head(blocks)[1] /\ cur[2] + cur[3] = Head(blocks)[2]
  THEN NonAdjacent(Tail(blocks), <<cur[1], cur[2], cur[3] + Head(blocks)[3]>>)
  ELSE (IF cur[3] > 0 THEN <<cur>> ELSE <<>>) \o NonAdjacent(Tail(blocks), Head(blocks))

\* get_matching_blocks: the merged blocks and the closing block of size 0
get_matching_blocks(a, b) ==
  NonAdjacent(MatchingBlocks(a, b, 1, Len(a), 1, Len(b)), <<1, 1, 0>>)
    \o <<<<Len(a) + 1, Len(b) + 1, 0>>>>

\* get_opcodes: what turns a into b, as [tag, alo, ahi, blo, bhi] over
\* a[alo..ahi] and b[blo..bhi]; i and j are where the last block ended
RECURSIVE OpcodesFrom(_, _, _)
OpcodesFrom(blocks, i, j) ==
  IF blocks = <<>> THEN <<>>
  ELSE LET Code(ai, bj, size) ==
             (IF i < ai /\ j < bj
                THEN <<[tag |-> "replace", alo |-> i, ahi |-> ai - 1, blo |-> j, bhi |-> bj - 1]>>
              ELSE IF i < ai
                THEN <<[tag |-> "delete", alo |-> i, ahi |-> ai - 1, blo |-> j, bhi |-> j - 1]>>
              ELSE IF j < bj
                THEN <<[tag |-> "insert", alo |-> i, ahi |-> i - 1, blo |-> j, bhi |-> bj - 1]>>
              ELSE <<>>)
             \o (IF size > 0
                 THEN <<[tag |-> "equal", alo |-> ai, ahi |-> ai + size - 1,
                         blo |-> bj, bhi |-> bj + size - 1]>>
                 ELSE <<>>)
             \o OpcodesFrom(Tail(blocks), ai + size, bj + size)
       IN  Code(Head(blocks)[1], Head(blocks)[2], Head(blocks)[3])

get_opcodes(a, b) == OpcodesFrom(get_matching_blocks(a, b), 1, 1)

\* difflib.Differ._dump: the items x[lo..hi], each after the tag and a space
Dump(tag, x, lo, hi) == [k \in 1..(hi - lo + 1) |-> tag \o " " \o x[lo + k - 1]]

\* Differ._plain_replace: the shorter side first
plain_replace(a, alo, ahi, b, blo, bhi) ==
  IF bhi - blo < ahi - alo
  THEN Dump("+", b, blo, bhi) \o Dump("-", a, alo, ahi)
  ELSE Dump("-", a, alo, ahi) \o Dump("+", b, blo, bhi)

\* SequenceMatcher(charjunk, aelt, belt).ratio() of two items, exact
ItemRatio(aelt, belt) ==
  Frac(2 * MatchingSize(aelt, belt, 1, Len(aelt), 1, Len(belt)), Len(aelt) + Len(belt))

\* the marks under the two lines of a replaced pair, from the opcodes that
\* turn aelt into belt
RECURSIVE IntralineTags(_, _)
IntralineTags(codes, tags) ==
  IF codes = <<>> THEN tags
  ELSE LET Add(tag, la, lb) ==
             IF tag = "replace"
               THEN <<tags[1] \o Repeat("^", la), tags[2] \o Repeat("^", lb)>>
             ELSE IF tag = "delete" THEN <<tags[1] \o Repeat("-", la), tags[2]>>
             ELSE IF tag = "insert" THEN <<tags[1], tags[2] \o Repeat("+", lb)>>
             ELSE <<tags[1] \o Repeat(" ", la), tags[2] \o Repeat(" ", lb)>>
       IN  IntralineTags(Tail(codes),
             Add(Head(codes).tag, Head(codes).ahi - Head(codes).alo + 1,
                 Head(codes).bhi - Head(codes).blo + 1))

\* str.rstrip()
StrRStrip(s) ==
  LET Keep(keep) == IF keep = {} THEN "" ELSE SubSeq(s, 1, Max(keep))
  IN  Keep({k \in 1..Len(s) : Ch(s, k) \notin SpaceChars})

\* difflib._keep_original_ws(s, tag_s)
RECURSIVE keep_original_ws(_, _)
keep_original_ws(s, tag_s) ==
  IF s = "" \/ tag_s = "" THEN ""
  ELSE (IF Ch(tag_s, 1) = " " /\ Ch(s, 1) \in SpaceChars THEN Ch(s, 1) ELSE Ch(tag_s, 1))
       \o keep_original_ws(SubSeq(s, 2, Len(s)), SubSeq(tag_s, 2, Len(tag_s)))

\* Differ._qformat: the two lines, each followed by its marks if it has any
qformat(aline, bline, atags, btags) ==
  LET Lines(at, bt) ==
        <<"- " \o aline>> \o (IF at # "" THEN <<"? " \o at \o "\n">> ELSE <<>>)
        \o <<"+ " \o bline>> \o (IF bt # "" THEN <<"? " \o bt \o "\n">> ELSE <<>>)
  IN  Lines(StrRStrip(keep_original_ws(aline, atags)),
            StrRStrip(keep_original_ws(bline, btags)))

\* Differ._fancy_replace on a[alo..ahi] and b[blo..bhi]: the pair of unequal
\* items most alike, the first such pair going through b and for each of its
\* items through a, if its ratio reaches the cutoff 0.75; else the first pair
\* of equal items; else _plain_replace.  The items before the pair and those
\* after it are treated the same way (_fancy_helper).
RECURSIVE fancy_replace(_, _, _, _, _, _)
fancy_replace(a, alo, ahi, b, blo, bhi) ==
  LET Helper(lo1, hi1, lo2, hi2) ==
        IF lo1 <= hi1
        THEN (IF lo2 <= hi2 THEN fancy_replace(a, lo1, hi1, b, lo2, hi2)
              ELSE Dump("-", a, lo1, hi1))
        ELSE IF lo2 <= hi2 THEN Dump("+", b, lo2, hi2)
        ELSE <<>>
      Around(p, middle) ==
        Helper(alo, p[1] - 1, blo, p[2] - 1) \o middle
          \o Helper(p[1] + 1, ahi, p[2] + 1, bhi)
      First(S) ==
        CHOOSE p \in S : \A q \in S : p[2] < q[2] \/ (p[2] = q[2] /\ p[1] <= q[1])
      Marked(aelt, belt) ==
        LET Tagged(tags) == qformat(aelt, belt, tags[1], tags[2])
        IN  Tagged(IntralineTags(get_opcodes(aelt, belt), <<"", "">>))
      Pick(r) ==
        LET alike == {p \in DOMAIN r :
                        a[p[1]] # b[p[2]] /\ 4 * r[p].n >= 3 * r[p].d}
            same == {p \in DOMAIN r : a[p[1]] = b[p[2]]}
            Best(p) == Around(p, Marked(a[p[1]], b[p[2]]))
            Same(p) == Around(p, <<"  " \o a[p[1]]>>)
        IN  IF alike # {}
            THEN Best(First({p \in alike :
                               \A q \in alike : r[q].n * r[p].d <= r[p].n * r[q].d}))
            ELSE IF same # {} THEN Same(First(same))
            ELSE plain_replace(a, alo, ahi, b, blo, bhi)
  IN  Pick([p \in (alo..ahi) \X (blo..bhi) |-> ItemRatio(a[p[1]], b[p[2]])])

\* difflib.ndiff(a, b) on two lists of words: Differ().compare(a, b)
ndiff(a, b) ==
  LET Lines(code) ==
        IF code.tag = "replace"
          THEN fancy_replace(a, code.alo, code.ahi, b, code.blo, code.bhi)
        ELSE IF code.tag = "delete" THEN Dump("-", a, code.alo, code.ahi)
        ELSE IF code.tag = "insert" THEN Dump("+", b, code.blo, code.bhi)
        ELSE Dump(" ", a, code.alo, code.ahi)
      Compare(codes) == Flatten([k \in 1..Len(codes) |-> Lines(codes[k])])
  IN  Compare(get_opcodes(a, b))

\* str.split(): the words between runs of whitespace
Split(str) ==
  LET word(i) == i >= 1 /\ i <= Len(str) /\ Ch(str, i) \notin SpaceChars
      starts == {i \in 1..Len(str) : word(i) /\ ~word(i - 1)}
      end(i) == Min({j \in i..Len(str) : ~word(j + 1)})
      nth(n) == CHOOSE i \in starts : Cardinality({j \in starts : j < i}) = n - 1
  IN  [n \in 1..Cardinality(starts) |-> SubSeq(str, nth(n), end(nth(n)))]

\* str.startswith(prefix)
StartsWith(str, prefix) ==
  Len(str) >= Len(prefix) /\ SubSeq(str, 1, Len(prefix)) = prefix

\* item[2:]
From3(item) == SubSeq(item, 3, Len(item))

\* the words of the diff items that start with the mark
MarkedWords(diff, mark) ==
  LET Words(marked) == [k \in DOMAIN marked |-> From3(marked[k])]
  IN  Words(SelectSeq(diff, LAMBDA word : StartsWith(word, mark)))

\* LegalDocumentComparison._compare_section_detailed
compare_section_detailed(section1, section2) ==
  LET Stats(words1, words2) ==
        LET Diffed(diff) ==
              [word_count1 |-> Len(words1),
               word_count2 |-> Len(words2),
               word_difference |-> IF Len(words1) >= Len(words2)
                                   THEN Len(words1) - Len(words2)
                                   ELSE Len(words2) - Len(words1),
               added_words |-> MarkedWords(diff, "+ "),
               removed_words |-> MarkedWords(diff, "- "),
               common_words |-> {words1[k] : k \in 1..Len(words1)}
                                  \cap {words2[k] : k \in 1..Len(words2)},
               similarity_score |-> calculate_similarity(section1, section2)]
        IN  Diffed(ndiff(words1, words2))
  IN  Stats(Split(section1), Split(section2))

\* Bare number: a run of more than this many items is a key difference
SignificantRun == 2

\* one pass of the loop of _extract_key_differences; st holds key_diffs
\* (added, removed) and the runs being collected
KeyDiffStep(st, item) ==
  LET Closed(list, run) ==
        IF Len(run) > SignificantRun THEN Append(list, JoinSpace(run)) ELSE list
  IN  IF StartsWith(item, "+ ")
      THEN [st EXCEPT !.current_addition = Append(@, From3(item)),
                      !.removed = Closed(@, st.current_removal),
                      !.current_removal = <<>>]
      ELSE IF StartsWith(item, "- ")
      THEN [st EXCEPT !.current_removal = Append(@, From3(item)),
                      !.added = Closed(@, st.current_addition),
                      !.current_addition = <<>>]
      ELSE [added |-> Closed(st.added, st.current_addition),
            removed |-> Closed(st.removed, st.current_removal),
            current_addition |-> <<>>,
            current_removal |-> <<>>]

RECURSIVE KeyDiffLoop(_, _)
KeyDiffLoop(diff, st) ==
  IF diff = <<>> THEN st ELSE KeyDiffLoop(Tail(diff), KeyDiffStep(st, Head(diff)))

\* the runs still open when the stream ends are dropped
extract_key_differences_open_runs_dropped(diff) ==
  LET Closed(st) == [added |-> st.added, removed |-> st.removed]
  IN  Closed(KeyDiffLoop(diff, [added |-> <<>>, removed |-> <<>>,
                                current_addition |-> <<>>,
                                current_removal |-> <<>>]))

\* LegalDocumentComparison._extract_key_differences
extract_key_differences(diff) ==
  LET Remaining(st) ==
        [added |-> IF Len(st.current_addition) > SignificantRun
                   THEN Append(st.added, JoinSpace(st.current_addition))
                   ELSE st.added,
         removed |-> IF Len(st.current_removal) > SignificantRun
                     THEN Append(st.removed, JoinSpace(st.current_removal))
                     ELSE st.removed]
  IN  Remaining(KeyDiffLoop(diff, [added |-> <<>>, removed |-> <<>>,
                                   current_addition |-> <<>>,
                                   current_removal |-> <<>>]))

\* the outcomes of compare_specific_provision: its result, or the exception
\* that extract_section raised
ProvisionRaised == [status |-> "raise"]

\* LegalDocumentComparison.compare_specific_provision; a comparison of None
\* is kept as <<>>, and a comparison c as <<c>>
compare_specific_provision(document1, document2, provision_name) ==
  LET Compared(provision1, provision2) ==
        LET Diffed(diff) ==
              [similarity_score |-> calculate_similarity(provision1, provision2),
               doc1_length |-> Len(provision1),
               doc2_length |-> Len(provision2),
               diff |-> diff,
               key_differences |-> extract_key_differences(diff)]
        IN  Diffed(ndiff(Split(provision1), Split(provision2)))
      Extracted(found1, found2) ==
        IF found1.status = "raise" \/ found2.status = "raise" THEN ProvisionRaised
        ELSE [status |-> "result",
              found_in_doc1 |-> found1.status = "found",
              found_in_doc2 |-> found2.status = "found",
              comparison |->
                IF found1.status = "found" /\ found1.text # ""
                   /\ found2.status = "found" /\ found2.text # ""
                THEN <<Compared(found1.text, found2.text)>>
                ELSE <<>>]
  IN  Extracted(extract_section(document1, provision_name),
                extract_section(document2, provision_name))

\* the entry of section_comparisons for a common section
SectionComparison(section, content1, content2) ==
  LET entry == [similarity_score |-> calculate_similarity(content1, content2),
                doc1_length |-> Len(content1),
                doc2_length |-> Len(content2)]
  IN  IF section \in CommonSectionNames
      THEN entry @@ [detailed |-> compare_section_detailed(content1, content2)]
      ELSE entry

\* every section is listed as common
compare_sections_all_common(doc1_sections, doc2_sections, all_sections) ==
  [common_sections |-> all_sections,
   unique_to_doc1 |-> SelectSeq(all_sections, LAMBDA x : x \notin DOMAIN doc2_sections),
   unique_to_doc2 |-> SelectSeq(all_sections, LAMBDA x : x \notin DOMAIN doc1_sections),
   section_comparisons |->
     [x \in DOMAIN doc1_sections \cap DOMAIN doc2_sections |->
        SectionComparison(x, doc1_sections[x], doc2_sections[x])]]

\* compare_documents after the two _extract_all_sections calls; all_sections
\* is the set of keys in the order the loop visits it, which is the
\* iteration order of a Python set and not fixed
compare_sections(doc1_sections, doc2_sections, all_sections) ==
  [common_sections |->
     SelectSeq(all_sections,
               LAMBDA x : x \in DOMAIN doc1_sections /\ x \in DOMAIN doc2_sections),
   unique_to_doc1 |->
     SelectSeq(all_sections,
               LAMBDA x : ~(x \in DOMAIN doc1_sections /\ x \in DOMAIN doc2_sections)
                          /\ x \in DOMAIN doc1_sections),
   unique_to_doc2 |-> SelectSeq(all_sections, LAMBDA x : x \notin DOMAIN doc1_sections),
   section_comparisons |->
     [x \in DOMAIN doc1_sections \cap DOMAIN doc2_sections |->
        SectionComparison(x, doc1_sections[x], doc2_sections[x])]]

\* Bound: the number of fragments a compared document is assembled from
MaxSecFrags == 2

\* sections with a SECTION or ARTICLE header, and one with a bare title
SectionFragments ==
  {"SECTION 1. TERM\n1 year\n", "SECTION 1. TERM\n2 years\n",
   "ARTICLE 2. LATE PAYMENT\n1%\n", "Liability\ncapped\n\n"}

\* the documents of the model: up to n fragments in a row
RECURSIVE DocsUpTo(_)
DocsUpTo(n) ==
  IF n = 0 THEN {""}
  ELSE DocsUpTo(n - 1) \cup {d \o f : d \in DocsUpTo(n - 1), f \in SectionFragments}

SectionDocs == DocsUpTo(MaxSecFrags)

\* self._extract_all_sections(document): a function of the document alone,
\* which is worked out once for each document of SectionDocs
ExtractedSections == Tabulated(extract_all_sections, SectionDocs)

sections_of(document) ==
  IF document \in SectionDocs THEN ExtractedSections[document]
  ELSE extract_all_sections(document)

\* the orders in which a set may be iterated
RECURSIVE Orders(_)
Orders(S) ==
  IF S = {} THEN {<<>>}
  ELSE UNION {{<<x>> \o rest : rest \in Orders(S \ {x})} : x \in S}

(***************************************************************************)
(* The analyzer objects                                                    *)
(***************************************************************************)
\* the attributes the constructors of CitationAnalyzer, ContractRiskAnalyzer
\* and LegalDocumentComparison set
Configuration ==
  [patterns |-> patterns,
   risk_patterns |-> risk_patterns,
   standard_provisions |-> standard_provisions,
   common_sections |-> common_sections]

\* find_missing_provisions as a method: the provisions are read from self
find_missing_provisions_of(self, text) ==
  LET Missing(text_lower) ==
        SelectSeq(self.standard_provisions, LAMBDA p : ~ProvisionFound(p, text_lower))
  IN  Missing(StrLower(text))

\* for section in all_sections: within one process a set of strings is
\* iterated in the order of the strings' hashes, which the seed fixes
IterationOrder(seed, S) == SelectSeq(seed, LAMBDA x : x \in S)

(***************************************************************************)
(* The Python types of the values compare_documents returns, as json.dumps *)
(* sees them                                                               *)
(***************************************************************************)
Scalar(name) == [kind |-> name]
ListOf(T) == [kind |-> "list", of |-> T]
SetOf(T) == [kind |-> "set", of |-> T]
DictOf(fields) == [kind |-> "dict", fields |-> fields]

\* the types the JSON encoder writes as they are
JsonScalars == {"str", "int", "float", "bool", "NoneType"}

\* json.dumps(value) succeeds: dict, list and tuple are encoded when what
\* they hold is; any other type raises TypeError
RECURSIVE Serializable(_)
Serializable(T) ==
  CASE T.kind \in JsonScalars -> TRUE
    [] T.kind \in {"list", "tuple"} -> Serializable(T.of)
    [] T.kind = "dict" -> \A k \in DOMAIN T.fields : Serializable(T.fields[k])
    [] OTHER -> FALSE

\* stats of _compare_section_detailed
DetailedType ==
  DictOf([word_count1 |-> Scalar("int"),
          word_count2 |-> Scalar("int"),
          word_difference |-> Scalar("int"),
          added_words |-> ListOf(Scalar("str")),
          removed_words |-> ListOf(Scalar("str")),
          common_words |-> SetOf(Scalar("str")),
          similarity_score |-> Scalar("float")])

\* results["section_comparisons"][section]
SectionComparisonType(entry) ==
  LET plain == [similarity_score |-> Scalar("float"),
                doc1_length |-> Scalar("int"),
                doc2_length |-> Scalar("int")]
  IN  IF "detailed" \in DOMAIN entry THEN DictOf(plain @@ [detailed |-> DetailedType])
      ELSE DictOf(plain)

\* results of compare_documents
CompareDocumentsType(results) ==
  DictOf([common_sections |-> ListOf(Scalar("str")),
          unique_to_doc1 |-> ListOf(Scalar("str")),
          unique_to_doc2 |-> ListOf(Scalar("str")),
          section_comparisons |->
            DictOf([x \in DOMAIN results.section_comparisons |->
                      SectionComparisonType(results.section_comparisons[x])])])

(***************************************************************************)
(* DocumentComparison                                                      *)
(***************************************************************************)
WordPattern == Compile("\\b\\w+\\b")

\* set(re.findall(r'\b\w+\b', text.lower()))
WordSet(str) ==
  LET Words(lower) ==
        {Group0(lower, m) : m \in Range(FindIter(WordPattern, lower, Flags(FALSE, FALSE)))}
  IN  Words(StrLower(str))

\* Bare number: the digits round(x, 4) keeps, as a power of ten
RoundScale == 10000

\* round(n / d, 4): the nearest multiple of 1/10000, a tie going to the even
\* one (n / d is half way between two of them only for d >= 32)
Round4(n, d) ==
  LET Nearest(q, r) ==
        IF 2 * r > d \/ (2 * r = d /\ q % 2 = 1) THEN Frac(q + 1, RoundScale)
        ELSE Frac(q, RoundScale)
  IN  Nearest((n * RoundScale) \div d, (n * RoundScale) % d)

\* DocumentComparison._calculate_text_similarity
calculate_text_similarity(text1, text2) ==
  LET Jaccard(words1, words2) ==
        IF Cardinality(words1 \cup words2) > 0
        THEN Round4(Cardinality(words1 \cap words2), Cardinality(words1 \cup words2))
        ELSE Frac(0, 1)
  IN  Jaccard(WordSet(text1), WordSet(text2))

\* DocumentComparison.compare_documents: the similarity_score of its result
\* (the other entries are made from doc_processor.extract_metadata)
text_comparison(doc1_text, doc2_text) ==
  [similarity_score |-> calculate_text_similarity(doc1_text, doc2_text)]

(***************************************************************************)
(* The state: a caller of the analysers.  It holds the inputs it assembles *)
(* and the result of each operation it has called on them; a result is     *)
(* kept as <<>> (not called) or <<value>>.  Each analyser has its own      *)
(* specification; the variables of the others stay as they start.          *)
(***************************************************************************)
VARIABLES
  text,         \* the document text under analysis
  room,         \* how many more fragments the input may grow by
  analysis,     \* result of analyze_contract(text)
  missing,      \* result of find_missing_provisions(text)
  suggestions,  \* result of suggest_improvements(analysis)
  citations,    \* result of extract_citations(text)
  documents,    \* the (doc_id, text, metadata) list for build_citation_network
  network,      \* result of build_citation_network(documents)
  doc1,         \* first text for compare_documents
  doc2,         \* second text for compare_documents
  comparison,   \* result of compare_documents(doc1, doc2)
  similarity,   \* result of DocumentComparison.compare_documents(doc1, meta, doc2, meta)
  ratio,        \* result of _calculate_similarity(doc1, doc2)
  section_name, \* the section name for extract_section and compare_specific_provision
  section,      \* result of extract_section(doc1, section_name)
  provision,    \* result of compare_specific_provision(doc1, doc2, section_name)
  diff,         \* a diff stream for _extract_key_differences
  key_diffs,    \* result of _extract_key_differences(diff)
  config,       \* the attributes of the three analyzer objects
  hashseed,     \* the order this process iterates a set of section names in
  history,      \* the calls made on the analyzers, with their results
  details,      \* result of extract_contract_details(text)
  summary,      \* result of generate_legal_summary(text)
  sections,     \* result of _extract_all_sections(text)
  stored_documents,
                \* DocumentManager.documents, in the order of the dict
  document_metadata,
                \* DocumentManager.document_metadata, in the order of the dict
  current_document_id,
                \* DocumentManager.current_document_id
  clock,        \* the number of documents added so far (the time in added_at)
  called,       \* the last call on an object: its arguments, the attributes before, the result
  vector_store, \* EmbeddingStore.vector_store
  current_namespace,
                \* EmbeddingStore.current_namespace
  pinecone,     \* the texts in the Pinecone index, as <<namespace, text>>
  qa_chain,     \* st.session_state.qa_chain
  asked         \* what the last Get Answer on the Ask Questions page came to

riskVars == <<analysis, missing, suggestions>>
citeVars == <<citations>>
netVars == <<documents, network>>
compareVars == <<doc1, doc2, comparison>>
callVars == <<similarity, ratio>>
sectionVars == <<section_name, section, provision>>
diffVars == <<diff, key_diffs>>
pureVars == <<config, hashseed, history>>
toolVars == <<details, summary>>
allVars == <<sections>>
managerVars == <<stored_documents, document_metadata, current_document_id, clock>>
storeVars == <<vector_store, current_namespace, pinecone>>
sessionVars == <<qa_chain, asked>>
appVars == <<managerVars, called, storeVars, sessionVars>>

vars ==
  <<text, room, riskVars, citeVars, netVars, compareVars, callVars, sectionVars, diffVars, pureVars,
    toolVars, allVars, appVars>>

\* what the operations of one component leave alone
outsideRisk == <<citeVars, netVars, compareVars, callVars, sectionVars, diffVars, pureVars, toolVars,
    allVars, appVars>>
outsideCite == <<riskVars, netVars, compareVars, callVars, sectionVars, diffVars, pureVars, toolVars,
    allVars, appVars>>
outsideNet == <<riskVars, citeVars, compareVars, callVars, sectionVars, diffVars, pureVars, toolVars,
    allVars, appVars>>
outsideCompare == <<riskVars, citeVars, netVars, callVars, sectionVars, diffVars, pureVars, toolVars,
    allVars, appVars>>
outsideTexts == <<comparison, ratio, riskVars, citeVars, netVars, sectionVars, diffVars, pureVars, toolVars,
    allVars, appVars>>
outsideRatio == <<comparison, similarity, riskVars, citeVars, netVars, sectionVars, diffVars, pureVars, toolVars,
    allVars, appVars>>
outsideSection == <<comparison, riskVars, citeVars, netVars, callVars, diffVars, pureVars, toolVars,
    allVars, appVars>>
outsideDiff == <<riskVars, citeVars, netVars, compareVars, callVars, sectionVars, pureVars, toolVars,
    allVars, appVars>>
outsidePure ==
  <<riskVars, citeVars, netVars, compareVars, callVars, sectionVars, diffVars,
    toolVars, allVars, appVars>>
outsideTools ==
  <<riskVars, citeVars, netVars, compareVars, callVars, sectionVars, diffVars,
    pureVars, allVars, appVars>>
outsideAll ==
  <<riskVars, citeVars, netVars, compareVars, callVars, sectionVars, diffVars, pureVars,
    toolVars, appVars>>
outsideApp ==
  <<riskVars, citeVars, netVars, compareVars, callVars, sectionVars, diffVars, pureVars,
    toolVars, allVars>>

NoResults == analysis = <<>> /\ missing = <<>> /\ suggestions = <<>>
NoCitations == citations = <<>>
NoNetwork == documents = <<>> /\ network = <<>>
NoComparison == doc1 = "" /\ doc2 = "" /\ comparison = <<>>
NoCalls == similarity = <<>> /\ ratio = <<>>
NoSections == section_name = "" /\ section = <<>> /\ provision = <<>>
NoDiff == diff = <<>> /\ key_diffs = <<>>
NoPurity == config = Configuration /\ hashseed = <<>> /\ history = <<>>
NoDetails == details = <<>> /\ summary = <<>>
NoAllSections == sections = <<>>
NoSession ==
  /\ stored_documents = [order |-> <<>>, at |-> <<>>]
  /\ document_metadata = [order |-> <<>>, at |-> <<>>]
  /\ current_document_id = <<>>
  /\ clock = 0 /\ called = <<>>
  /\ vector_store = <<>> /\ current_namespace = <<>> /\ pinecone = {}
  /\ qa_chain = <<>> /\ asked = <<>>
NothingYet ==
  /\ NoResults /\ NoCitations /\ NoNetwork /\ NoComparison /\ NoCalls /\ NoSections
  /\ NoDiff /\ NoPurity /\ NoDetails
  /\ NoAllSections
  /\ NoSession

(***************************************************************************)
(* Contract risk analysis                                                  *)
(***************************************************************************)
\* Bound: the number of fragments a contract text is assembled from
MaxFrags == 2

\* A contract that names eight of the ten standard provisions (all but
\* termination and confidentiality), and one with eleven risk phrases in
\* every scored category, one more than the category cap takes.
EightProvisions ==
  "Intellectual Property. Indemnity. Governing Law. Arbitration. "
  \o "Force Majeure. Assignment. Notices. Entire Agreement. "

DenseRisk ==
  Repeat("may determine ", 11) \o Repeat("for any reason ", 11)
  \o Repeat("forever ", 11) \o Repeat("transfer all ", 11)

\* eight provisions with risk phrases that bring the risk score to 30, to 60
ModerateRisk == EightProvisions \o Repeat("may ", 10) \o Repeat("forever ", 2)

HighRisk ==
  EightProvisions \o Repeat("may ", 10) \o Repeat("forever ", 10)
  \o Repeat("sole risk ", 10)

\* the texts an input starts from, each with the fragments it may still take
BaseTexts ==
  {[text |-> "", room |-> MaxFrags],
   [text |-> EightProvisions, room |-> MaxFrags - 1],
   [text |-> ModerateRisk, room |-> MaxFrags - 1],
   [text |-> HighRisk, room |-> MaxFrags - 1],
   [text |-> DenseRisk, room |-> 0]}

RiskFragments ==
  {"x", "may ", "Without Notice ", "indemnify them all ", "non-disclosure ",
   "Termination "}

InitRisk ==
  /\ \E b \in BaseTexts : text = b.text /\ room = b.room
  /\ NothingYet

\* the caller extends the document; results of the old text are dropped
TypeRisk ==
  /\ room > 0
  /\ \E f \in RiskFragments : text' = text \o f
  /\ room' = room - 1
  /\ analysis' = <<>> /\ missing' = <<>> /\ suggestions' = <<>>
  /\ UNCHANGED outsideRisk

AnalyzeContract ==
  /\ analysis = <<>>
  /\ analysis' = <<analyze_contract(text)>>
  /\ UNCHANGED <<text, room, missing, suggestions, outsideRisk>>

FindMissingProvisions ==
  /\ missing = <<>>
  /\ missing' = <<find_missing_provisions(text)>>
  /\ UNCHANGED <<text, room, analysis, suggestions, outsideRisk>>

\* the caller passes the analysis it got on to suggest_improvements
SuggestImprovements ==
  /\ analysis # <<>> /\ suggestions = <<>>
  /\ suggestions' = <<suggest_improvements(analysis[1])>>
  /\ UNCHANGED <<text, room, analysis, missing, outsideRisk>>

NextRisk == TypeRisk \/ AnalyzeContract \/ FindMissingProvisions \/ SuggestImprovements

SpecRisk == InitRisk /\ [][NextRisk]_vars

(***************************************************************************)
(* Citation extraction                                                     *)
(***************************************************************************)
\* Bound: the number of fragments a text with citations is assembled from
MaxCiteFrags == 3

CiteFragments ==
  {"AIR 2020 SC 5 ", "(2020) 5 SCC 123, ", "The Indian Contract Act, 1872. ",
   "Article 14(2) ", "Article 21, ", "under Section 10 of the Evidence Act. "}

InitCite ==
  /\ text = "" /\ room = MaxCiteFrags
  /\ NothingYet

TypeCite ==
  /\ room > 0
  /\ \E f \in CiteFragments : text' = text \o f
  /\ room' = room - 1
  /\ citations' = <<>>
  /\ UNCHANGED outsideCite

ExtractCitations ==
  /\ citations = <<>>
  /\ citations' = <<extract_citations(text)>>
  /\ UNCHANGED <<text, room, outsideCite>>

NextCite == TypeCite \/ ExtractCitations

SpecCite == InitCite /\ [][NextCite]_vars

(***************************************************************************)
(* The citation network of the stored documents                            *)
(***************************************************************************)
\* Bound: the number of documents in the list
MaxDocs == 3

\* the metadata of a stored document names the uploaded file; two uploads
\* may have the same file name.  A caller may also pass metadata without it.
Metadatas ==
  {[filename |-> "a.txt", doc_type |-> "Judgment"],
   [filename |-> "b.pdf", doc_type |-> "Judgment"],
   [doc_type |-> "Judgment"]}

\* str(uuid.uuid4())[:8] of the n-th stored document
DocId(n) == "0000000" \o Ch(DigitStr, n + 1)

InitNet ==
  /\ text = "" /\ room = MaxDocs
  /\ NothingYet

AddDocument ==
  /\ room > 0
  /\ \E t \in DocTexts, meta \in Metadatas :
       documents' = Append(documents,
                           [doc_id |-> DocId(Len(documents) + 1), text |-> t,
                            metadata |-> meta])
  /\ room' = room - 1
  /\ network' = <<>>
  /\ UNCHANGED <<text, outsideNet>>

BuildCitationNetwork ==
  /\ network = <<>>
  /\ network' = <<build_citation_network(documents)>>
  /\ UNCHANGED <<text, room, documents, outsideNet>>

NextNet == AddDocument \/ BuildCitationNetwork

SpecNet == InitNet /\ [][NextNet]_vars

(***************************************************************************)
(* Document comparison                                                     *)
(***************************************************************************)
InitCompare ==
  /\ text = "" /\ room = 0
  /\ NothingYet

TypeDoc1 ==
  /\ \E f \in SectionFragments : doc1 \o f \in SectionDocs /\ doc1' = doc1 \o f
  /\ comparison' = <<>>
  /\ UNCHANGED <<text, room, doc2, outsideCompare>>

TypeDoc2 ==
  /\ \E f \in SectionFragments : doc2 \o f \in SectionDocs /\ doc2' = doc2 \o f
  /\ comparison' = <<>>
  /\ UNCHANGED <<text, room, doc1, outsideCompare>>

\* compare_documents(doc1, doc2), for each order in which the loop may visit
\* all_sections
CompareDocuments ==
  /\ comparison = <<>>
  /\ \E all_sections \in Orders(DOMAIN sections_of(doc1) \cup DOMAIN sections_of(doc2)) :
       comparison' = <<compare_sections(sections_of(doc1), sections_of(doc2),
                                        all_sections)>>
  /\ UNCHANGED <<text, room, doc1, doc2, outsideCompare>>

NextCompare == TypeDoc1 \/ TypeDoc2 \/ CompareDocuments

SpecCompare == InitCompare /\ [][NextCompare]_vars

(***************************************************************************)
(* Comparison of two texts by their words                                  *)
(***************************************************************************)
\* Bound: the number of fragments the two texts are assembled from
MaxTextFrags == 3

\* words in either case, digits, and a fragment without a word character
TextFragments == {"Term ", "term ", "net 30. ", "--- "}

InitTexts ==
  /\ text = "" /\ room = MaxTextFrags
  /\ NothingYet

TypeText1 ==
  /\ room > 0
  /\ \E f \in TextFragments : doc1' = doc1 \o f
  /\ room' = room - 1
  /\ similarity' = <<>>
  /\ UNCHANGED <<text, doc2, outsideTexts>>

TypeText2 ==
  /\ room > 0
  /\ \E f \in TextFragments : doc2' = doc2 \o f
  /\ room' = room - 1
  /\ similarity' = <<>>
  /\ UNCHANGED <<text, doc1, outsideTexts>>

CompareTexts ==
  /\ similarity = <<>>
  /\ similarity' = <<text_comparison(doc1, doc2)>>
  /\ UNCHANGED <<text, room, doc1, doc2, outsideTexts>>

NextTexts == TypeText1 \/ TypeText2 \/ CompareTexts

SpecTexts == InitTexts /\ [][NextTexts]_vars

(***************************************************************************)
(* The sequence-ratio similarity of two texts                              *)
(***************************************************************************)
\* Bound: the length of each of the two texts
MaxChars == 4

Alphabet == {"a", "b"}

InitRatio ==
  /\ text = "" /\ room = 0
  /\ NothingYet

TypeChar1 ==
  /\ Len(doc1) < MaxChars
  /\ \E c \in Alphabet : doc1' = doc1 \o c
  /\ ratio' = <<>>
  /\ UNCHANGED <<text, room, doc2, outsideRatio>>

TypeChar2 ==
  /\ Len(doc2) < MaxChars
  /\ \E c \in Alphabet : doc2' = doc2 \o c
  /\ ratio' = <<>>
  /\ UNCHANGED <<text, room, doc1, outsideRatio>>

CalculateSimilarity ==
  /\ ratio = <<>>
  /\ ratio' = <<calculate_similarity(doc1, doc2)>>
  /\ UNCHANGED <<text, room, doc1, doc2, outsideRatio>>

NextRatio == TypeChar1 \/ TypeChar2 \/ CalculateSimilarity

SpecRatio == InitRatio /\ [][NextRatio]_vars

(***************************************************************************)
(* Looking up one section                                                  *)
(***************************************************************************)
\* Bound: the number of fragments the document is assembled from
MaxParts == 2

\* a header of each of the three formats, and a title with text after it
PartFragments ==
  {"SECTION 1. TERM\nTwo years.\n", "2. Term\nfive years\n",
   "Term\nten years\n\n", "Liability: cap\nno more\n"}

\* plain names, and names with characters that mean something in a pattern
SectionNames == {"term", "liability", "(term)", "term(", "(x)?term"}

InitSection ==
  /\ text = "" /\ room = MaxParts
  /\ NoResults /\ NoCitations /\ NoNetwork /\ NoComparison /\ NoCalls
  /\ section_name \in SectionNames /\ section = <<>> /\ provision = <<>>
  /\ NoDiff /\ NoPurity /\ NoDetails
  /\ NoAllSections
  /\ NoSession

TypePart ==
  /\ room > 0
  /\ \E f \in PartFragments : doc1' = doc1 \o f
  /\ room' = room - 1
  /\ section' = <<>>
  /\ UNCHANGED <<text, doc2, section_name, provision, outsideSection>>

ExtractSection ==
  /\ section = <<>>
  /\ section' = <<extract_section(doc1, section_name)>>
  /\ UNCHANGED <<text, room, doc1, doc2, section_name, provision, outsideSection>>

NextSection == TypePart \/ ExtractSection

SpecSection == InitSection /\ [][NextSection]_vars

(***************************************************************************)
(* Comparing one provision of two documents                                *)
(***************************************************************************)
\* Bound: the number of fragments the two documents are assembled from
MaxProvisionParts == 2

\* a section with a body, one with an empty body, a bare title, another section
ProvisionFragments ==
  {"SECTION 1. TERM\nTwo years.\n", "SECTION 1. TERM\n\n",
   "Term\nten long years from now\n\n", "SECTION 2. FEES\nnone\n"}

ProvisionNames == {"term", "fees", "term("}

InitProvision ==
  /\ text = "" /\ room = MaxProvisionParts
  /\ NoResults /\ NoCitations /\ NoNetwork /\ NoComparison /\ NoCalls
  /\ section_name \in ProvisionNames /\ section = <<>> /\ provision = <<>>
  /\ NoDiff /\ NoPurity /\ NoDetails
  /\ NoAllSections
  /\ NoSession

TypeProvision1 ==
  /\ room > 0
  /\ \E f \in ProvisionFragments : doc1' = doc1 \o f
  /\ room' = room - 1
  /\ provision' = <<>>
  /\ UNCHANGED <<text, doc2, section_name, section, outsideSection>>

TypeProvision2 ==
  /\ room > 0
  /\ \E f \in ProvisionFragments : doc2' = doc2 \o f
  /\ room' = room - 1
  /\ provision' = <<>>
  /\ UNCHANGED <<text, doc1, section_name, section, outsideSection>>

CompareSpecificProvision ==
  /\ provision = <<>>
  /\ provision' = <<compare_specific_provision(doc1, doc2, section_name)>>
  /\ UNCHANGED <<text, room, doc1, doc2, section_name, section, outsideSection>>

NextProvision == TypeProvision1 \/ TypeProvision2 \/ CompareSpecificProvision

SpecProvision == InitProvision /\ [][NextProvision]_vars

(***************************************************************************)
(* Key differences of a diff stream                                        *)
(***************************************************************************)
\* Bound: the length of the diff stream
MaxItems == 7

\* how an item of a diff starts: added, removed, unchanged, a line of marks
ItemMarks == {"+ ", "- ", "  ", "? "}

InitKeyDiff ==
  /\ text = "" /\ room = 0
  /\ NothingYet

\* the next item of the stream; its word tells its place in the stream
AppendItem ==
  /\ Len(diff) < MaxItems
  /\ \E mark \in ItemMarks : diff' = Append(diff, mark \o Ch(DigitStr, Len(diff) + 2))
  /\ key_diffs' = <<>>
  /\ UNCHANGED <<text, room, outsideDiff>>

ExtractKeyDifferences ==
  /\ key_diffs = <<>>
  /\ key_diffs' = <<extract_key_differences(diff)>>
  /\ UNCHANGED <<text, room, diff, outsideDiff>>

NextKeyDiff == AppendItem \/ ExtractKeyDifferences

SpecKeyDiff == InitKeyDiff /\ [][NextKeyDiff]_vars

(***************************************************************************)
(* Calls on the three analyzers of one process, in any order               *)
(***************************************************************************)
\* Bound: the number of calls in a row
MaxCalls == 3

\* the arguments of the calls
CitedTexts == {"AIR 2020 SC 5 ", ""}

StoredDocuments ==
  {<<[doc_id |-> DocId(1), text |-> "AIR 2020 SC 5 ",
      metadata |-> [filename |-> "a.txt", doc_type |-> "Judgment"]],
     [doc_id |-> DocId(2), text |-> "AIR 2020 SC 5 (2020) 5 SCC 123, Article 21, ",
      metadata |-> [filename |-> "b.pdf", doc_type |-> "Judgment"]]>>}

ContractTexts == {"Termination may ", ""}

TermAndLiability == "SECTION 1. TERM\n1 year\nLiability\ncapped\n\n"

TermOnly == "SECTION 1. TERM\n2 years\n"

ComparedPairs == {<<TermAndLiability, TermAndLiability>>, <<TermAndLiability, TermOnly>>}

ComparedProvisions == {<<TermAndLiability, TermOnly, "term">>}

\* the section names of the compared documents, which are hashed
HashedNames == {"term", "liability"}

\* compare_documents in a process with the given seed
compare_documents(doc1_sections, doc2_sections, seed) ==
  compare_sections(doc1_sections, doc2_sections,
                   IterationOrder(seed, DOMAIN doc1_sections \cup DOMAIN doc2_sections))

\* the results of the calls, which depend on the arguments, on the
\* attributes of self and on the seed
CitationsExtracted == Tabulated(extract_citations, CitedTexts)

NetworksBuilt == Tabulated(build_citation_network, StoredDocuments)

ContractsAnalyzed == Tabulated(analyze_contract, ContractTexts)

ProvisionsMissing == Tabulated(find_missing_provisions, ContractTexts)

DocumentsCompared ==
  Tabulated(LAMBDA k : compare_documents(sections_of(k[2][1]), sections_of(k[2][2]), k[1]),
            Orders(HashedNames) \X ComparedPairs)

ProvisionsCompared ==
  Tabulated(LAMBDA args : compare_specific_provision(args[1], args[2], args[3]),
            ComparedProvisions)

\* self.find_missing_provisions(text)
missing_provisions_of(self, str) ==
  IF self.standard_provisions = standard_provisions THEN ProvisionsMissing[str]
  ELSE find_missing_provisions_of(self, str)

InitPure ==
  /\ text = "" /\ room = 0
  /\ NoResults /\ NoCitations /\ NoNetwork /\ NoComparison /\ NoCalls /\ NoSections
  /\ NoDiff
  /\ config = Configuration
  /\ hashseed \in Orders(HashedNames)
  /\ history = <<>>
  /\ NoDetails
  /\ NoAllSections
  /\ NoSession

\* a method returns: no attribute of self was assigned
Returned(op, input, result) ==
  /\ Len(history) < MaxCalls
  /\ history' = Append(history, [op |-> op, input |-> input, result |-> result])
  /\ UNCHANGED <<text, room, config, hashseed, outsidePure>>

CallExtractCitations ==
  \E str \in CitedTexts : Returned("extract_citations", <<str>>, CitationsExtracted[str])

CallBuildCitationNetwork ==
  \E docs \in StoredDocuments :
    Returned("build_citation_network", <<docs>>, NetworksBuilt[docs])

CallAnalyzeContract ==
  \E str \in ContractTexts : Returned("analyze_contract", <<str>>, ContractsAnalyzed[str])

\* find_missing_provisions that keeps what it found missing as the provisions
\* to look for
CallFindMissingProvisionsNarrowing ==
  \E str \in ContractTexts :
    /\ Len(history) < MaxCalls
    /\ history' = Append(history,
                         [op |-> "find_missing_provisions", input |-> <<str>>,
                          result |-> missing_provisions_of(config, str)])
    /\ config' = [config EXCEPT
                    !.standard_provisions = missing_provisions_of(config, str)]
    /\ UNCHANGED <<text, room, hashseed, outsidePure>>

CallFindMissingProvisions ==
  \E str \in ContractTexts :
    Returned("find_missing_provisions", <<str>>, missing_provisions_of(config, str))

CallCompareDocuments ==
  \E pair \in ComparedPairs :
    Returned("compare_documents", pair, DocumentsCompared[<<hashseed, pair>>])

CallCompareSpecificProvision ==
  \E args \in ComparedProvisions :
    Returned("compare_specific_provision", args, ProvisionsCompared[args])

NextPure ==
  \/ CallExtractCitations
  \/ CallBuildCitationNetwork
  \/ CallAnalyzeContract
  \/ CallFindMissingProvisions
  \/ CallCompareDocuments
  \/ CallCompareSpecificProvision

SpecPure == InitPure /\ [][NextPure]_vars

(***************************************************************************)
(* LegalAnalysisTools: extract_contract_details and generate_legal_summary *)
(* A dict is a function on its keys; None is <<>> and a value v is <<v>>   *)
(* where a field may hold None.                                            *)
(***************************************************************************)
date_patterns ==
  <<"effective as of\\s+([A-Za-z]+\\s+\\d{1,2},\\s+\\d{4})",
    "dated\\s+([A-Za-z]+\\s+\\d{1,2},\\s+\\d{4})",
    "dated\\s+this\\s+(\\d{1,2}(?:st|nd|rd|th)?\\s+day\\s+of\\s+[A-Za-z]+,\\s+\\d{4})">>

DateCompiled ==
  <<Compile(date_patterns[1]), Compile(date_patterns[2]), Compile(date_patterns[3])>>

\* the loop over date_patterns: the first pattern that matches sets
\* details["effective_date"] = match.group(1) and ends the loop
RECURSIVE effective_date_from(_, _)
effective_date_from(str, k) ==
  IF k > Len(DateCompiled) THEN <<>>
  ELSE LET Found(m) ==
             IF m.ok THEN "effective_date" :> GroupN(str, m, 1)
             ELSE effective_date_from(str, k + 1)
       IN  Once(Found, Search(DateCompiled[k], str, Flags(TRUE, FALSE)))

parties_pattern ==
  Compile("between\\s+([^,]+),\\s+a[n]?\\s+([^,]+),?"
          \o "(?:\\s+organized\\s+under\\s+the\\s+laws\\s+of\\s+([^,]+))?[^,]*,\\s+"
          \o "(?:with\\s+)?(?:its\\s+)?(?:principal\\s+)?"
          \o "(?:place\\s+of\\s+business\\s+at\\s+)?([^,]+)")

\* match.group(n).strip() if match.group(n) else None
StrippedGroup(str, m, n) ==
  IF GroupN(str, m, n) = "" THEN <<>> ELSE <<StrStrip(GroupN(str, m, n))>>

Party(str, m) ==
  [name |-> StrStrip(GroupN(str, m, 1)),
   type |-> StrippedGroup(str, m, 2),
   jurisdiction |-> StrippedGroup(str, m, 3),
   address |-> StrippedGroup(str, m, 4)]

parties_of(str) ==
  LET Parties(ms) == [k \in 1..Len(ms) |-> Party(str, ms[k])]
  IN  Once(Parties, FindIter(parties_pattern, str, Flags(TRUE, FALSE)))

money_pattern == Compile("\\$\\s?(\\d{1,3}(?:,\\d{3})*(?:\\.\\d{2})?)")

\* characters of context kept on each side of an amount
MoneyContext == 50

FinancialTerm(str, m) ==
  [amount |-> Group0(str, m),
   context |-> SubSeq(str, MaxOf(1, m.start - MoneyContext),
                      MinOf(Len(str), m.end - 1 + MoneyContext))]

financial_terms_of(str) ==
  LET Terms(ms) == [k \in 1..Len(ms) |-> FinancialTerm(str, ms[k])]
  IN  Once(Terms, FindIter(money_pattern, str, Flags(FALSE, FALSE)))

\* the mutation: the date loop finds nothing
no_effective_date(str) == ("parties" :> parties_of(str)) @@ ("financial_terms" :> financial_terms_of(str))

\* LegalAnalysisTools.extract_contract_details: the keys are parties and
\* financial_terms, and effective_date when a date pattern matched
extract_contract_details(str) ==
  effective_date_from(str, 1) @@ ("parties" :> parties_of(str))
  @@ ("financial_terms" :> financial_terms_of(str))

\* _determine_document_type: the first keyword test that holds decides
determine_document_type(str) ==
  LET Typed(text_lower) ==
        IF Contains(text_lower, "consulting agreement")
           \/ Contains(text_lower, "consulting services")
        THEN "consulting_agreement"
        ELSE IF Contains(text_lower, "employment agreement") THEN "employment_agreement"
        ELSE IF Contains(text_lower, "software license") THEN "license_agreement"
        ELSE IF Contains(text_lower, "non-disclosure")
                \/ Contains(text_lower, "confidentiality agreement")
        THEN "nda"
        ELSE IF Contains(text_lower, "purchase agreement")
                \/ Contains(text_lower, "asset purchase")
        THEN "purchase_agreement"
        ELSE IF Contains(text_lower, "lease")
                /\ (Contains(text_lower, "property") \/ Contains(text_lower, "premises"))
        THEN "lease_agreement"
        ELSE "contract"
  IN  Typed(StrLower(str))

section_pattern == Compile("(?:SECTION|ARTICLE)\\s+(\\d+(?:\\.\\d+)?)\\.\\s+([^\\n]+)")

key_sections_of(str) ==
  LET Listed(ms) ==
        [k \in 1..Len(ms) |->
           [number |-> GroupN(str, ms[k], 1), title |-> StrStrip(GroupN(str, ms[k], 2))]]
  IN  Once(Listed, FindIter(section_pattern, str, Flags(TRUE, FALSE)))

gov_law_pattern ==
  Compile("(?:governed by|governing law|subject to).{1,50}(?:laws of|law of)\\s+([A-Za-z ]+)")

\* summary["governing_law"]: None, or group(1).strip() of the first match
governing_law_of(str) ==
  LET Found(m) == IF m.ok THEN <<StrStrip(GroupN(str, m, 1))>> ELSE <<>>
  IN  Once(Found, Search(gov_law_pattern, str, Flags(TRUE, FALSE)))

\* LegalAnalysisTools.generate_legal_summary
generate_legal_summary(str) ==
  LET Summary(contract_details) ==
        [document_type |-> determine_document_type(str),
         key_sections |-> key_sections_of(str),
         parties |-> contract_details["parties"],
         dates |-> IF "effective_date" \in DOMAIN contract_details
                   THEN <<[type |-> "effective_date",
                           value |-> contract_details["effective_date"]]>>
                   ELSE <<>>,
         financial_terms |-> contract_details["financial_terms"],
         governing_law |-> governing_law_of(str)]
  IN  Once(Summary, extract_contract_details(str))

\* Bound: the number of fragments a text for the tools is assembled from
MaxToolFrags == 3

\* the pieces of the agreement sentence, and pieces with the other date
\* forms, a party clause, amounts and a section header
ToolFragments ==
  {"This Agreement, ", "dated January 1, 2023, ",
   "is governed by the laws of Delaware.",
   "effective as of March 3, 2020 ",
   "between Acme, a company, with offices, $1,500.00 ",
   "SECTION 1. Lease of property\n"}

AgreementSentence ==
  "This Agreement, dated January 1, 2023, is governed by the laws of Delaware."

InitTools ==
  /\ text = "" /\ room = MaxToolFrags
  /\ NothingYet

\* the caller extends the document; results of the old text are dropped
TypeTools ==
  /\ room > 0
  /\ \E f \in ToolFragments : text' = text \o f
  /\ room' = room - 1
  /\ details' = <<>> /\ summary' = <<>>
  /\ UNCHANGED outsideTools

ExtractContractDetails ==
  /\ details = <<>>
  /\ details' = <<extract_contract_details(text)>>
  /\ UNCHANGED <<text, room, summary, outsideTools>>

GenerateLegalSummary ==
  /\ summary = <<>>
  /\ summary' = <<generate_legal_summary(text)>>
  /\ UNCHANGED <<text, room, details, outsideTools>>

NextTools == TypeTools \/ ExtractContractDetails \/ GenerateLegalSummary

SpecTools == InitTools /\ [][NextTools]_vars

(***************************************************************************)
(* _extract_all_sections on documents with header lines                    *)
(***************************************************************************)
\* Bound: the number of fragments a document with headers is assembled from
MaxHeaderFrags == 2

\* header lines with a body that starts with a capital, a small letter or
\* a digit, titles that contain common section names, and bare titles
HeaderFragments ==
  {"SECTION 1. TERM\nThe term is 1 year.\n",
   "SECTION 2. FEES\nfees are due\n",
   "ARTICLE 3. PAYMENT TERMS\nnet 30\n",
   "SECTION 4. TERM\n2 years\n",
   "ARTICLE 5. LIABILITY\nlimited\n",
   "Liability\ncapped\n\n",
   "Termination\nat will\n\n"}

InitHeaders ==
  /\ text = "" /\ room = MaxHeaderFrags
  /\ NothingYet

\* the caller extends the document; the sections of the old text are dropped
TypeHeaders ==
  /\ room > 0
  /\ \E f \in HeaderFragments : text' = text \o f
  /\ room' = room - 1
  /\ sections' = <<>>
  /\ UNCHANGED outsideAll

ExtractAllSections ==
  /\ sections = <<>>
  /\ sections' = <<extract_all_sections(text)>>
  /\ UNCHANGED <<text, room, outsideAll>>

NextHeaders == TypeHeaders \/ ExtractAllSections

SpecHeaders == InitHeaders /\ [][NextHeaders]_vars

(***************************************************************************)
(* DocumentManager.  Its dicts keep the order in which the keys were first *)
(* set.  None is <<>> and a value v is <<v>>.                              *)
(***************************************************************************)
KeySet(d) == DOMAIN d.at

\* del d[key]
DictDel(d, key) ==
  [order |-> SelectSeq(d.order, LAMBDA k : k # key),
   at |-> [k \in DOMAIN d.at \ {key} |-> d.at[k]]]

\* os.path.basename
Basename(path) ==
  LET Last(slashes) ==
        IF slashes = {} THEN path ELSE SubSeq(path, Max(slashes) + 1, Len(path))
  IN  Last({k \in 1..Len(path) : Ch(path, k) = "/"})

\* the mutation: the new document does not become the current one
add_document_not_current(self, document_text, file_path, doc_type, doc_id, added_at) ==
  [documents |-> DictSet(self.documents, doc_id, document_text),
   document_metadata |->
     DictSet(self.document_metadata, doc_id,
             [file_path |-> file_path, filename |-> Basename(file_path),
              doc_type |-> doc_type, char_count |-> Len(document_text),
              added_at |-> added_at]),
   current_document_id |-> self.current_document_id]

\* DocumentManager.add_document, for the doc_id that str(uuid.uuid4())[:8]
\* gives and the time that uuid.uuid1() puts in added_at
add_document(self, document_text, file_path, doc_type, doc_id, added_at) ==
  [documents |-> DictSet(self.documents, doc_id, document_text),
   document_metadata |->
     DictSet(self.document_metadata, doc_id,
             [file_path |-> file_path, filename |-> Basename(file_path),
              doc_type |-> doc_type, char_count |-> Len(document_text),
              added_at |-> added_at]),
   current_document_id |-> <<doc_id>>]

\* DocumentManager.get_document: (text, metadata), or (None, None)
get_document(self, doc_id) ==
  LET Looked(id) ==
        IF id = <<>> \/ id[1] \notin KeySet(self.documents) THEN <<<<>>, <<>>>>
        ELSE <<<<self.documents.at[id[1]]>>, <<self.document_metadata.at[id[1]]>>>>
  IN  Looked(IF doc_id = <<>> THEN self.current_document_id ELSE doc_id)

\* DocumentManager.list_documents
list_documents(self) ==
  [k \in 1..Len(self.documents.order) |->
     <<self.documents.order[k], self.document_metadata.at[self.documents.order[k]]>>]

\* the mutation: the document added last becomes the current one
remove_document_to_latest(self, doc_id) ==
  IF doc_id \in KeySet(self.documents)
  THEN LET Removed(docs) ==
             [documents |-> docs,
              document_metadata |-> DictDel(self.document_metadata, doc_id),
              current_document_id |->
                IF self.current_document_id = <<doc_id>>
                THEN (IF docs.order # <<>> THEN <<docs.order[Len(docs.order)]>> ELSE <<>>)
                ELSE self.current_document_id]
       IN  Removed(DictDel(self.documents, doc_id))
  ELSE self

\* DocumentManager.remove_document
remove_document(self, doc_id) ==
  IF doc_id \in KeySet(self.documents)
  THEN LET Removed(docs) ==
             [documents |-> docs,
              document_metadata |-> DictDel(self.document_metadata, doc_id),
              current_document_id |->
                IF self.current_document_id = <<doc_id>>
                THEN (IF docs.order # <<>> THEN <<docs.order[1]>> ELSE <<>>)
                ELSE self.current_document_id]
       IN  Removed(DictDel(self.documents, doc_id))
  ELSE self

\* Bound: how many documents are added in a run
MaxAdds == 3

\* the values that the first eight characters of a uuid4 take; a value may
\* come again
DocIds == {"1a2b3c4d", "5e6f7a8b", "9c0d1e2f"}

\* the files a caller adds
ManagedFiles ==
  {[file_path |-> "acts/it_act.txt", text |-> "An Act", doc_type |-> "Act"],
   [file_path |-> "bill.pdf", text |-> "A Bill", doc_type |-> "contract"]}

\* the DocumentManager object
Manager ==
  [documents |-> stored_documents, document_metadata |-> document_metadata,
   current_document_id |-> current_document_id]

\* the attributes of the DocumentManager after a method has run
ManagerBecomes(self) ==
  /\ stored_documents' = self.documents
  /\ document_metadata' = self.document_metadata
  /\ current_document_id' = self.current_document_id

Call(op, args, self, result) == [op |-> op, args |-> args, self |-> self, result |-> result]

InitManager ==
  /\ text = "" /\ room = 0
  /\ NothingYet

ManagerAddDocument ==
  /\ clock < MaxAdds
  /\ \E file \in ManagedFiles, doc_id \in DocIds :
       /\ ManagerBecomes(add_document(Manager, file.text, file.file_path, file.doc_type,
                                      doc_id, clock + 1))
       /\ called' = <<Call("add_document", <<file.text, file.file_path, file.doc_type>>,
                           Manager, <<doc_id>>)>>
  /\ clock' = clock + 1
  /\ UNCHANGED <<text, room, storeVars, sessionVars, outsideApp>>

RemoveDocument ==
  /\ \E doc_id \in DocIds :
       /\ ManagerBecomes(remove_document(Manager, doc_id))
       /\ called' = <<Call("remove_document", <<doc_id>>, Manager, <<>>)>>
  /\ UNCHANGED <<text, room, clock, storeVars, sessionVars, outsideApp>>

GetDocument ==
  /\ \E doc_id \in {<<>>} \cup {<<id>> : id \in DocIds} :
       called' = <<Call("get_document", <<doc_id>>, Manager, get_document(Manager, doc_id))>>
  /\ UNCHANGED <<text, room, managerVars, storeVars, sessionVars, outsideApp>>

ListDocuments ==
  /\ called' = <<Call("list_documents", <<>>, Manager, list_documents(Manager))>>
  /\ UNCHANGED <<text, room, managerVars, storeVars, sessionVars, outsideApp>>

NextManager == ManagerAddDocument \/ RemoveDocument \/ GetDocument \/ ListDocuments

SpecManager == InitManager /\ [][NextManager]_vars

(***************************************************************************)
(* EmbeddingStore and LegalEmbeddingStore.  A PineconeVectorStore is the   *)
(* namespace it is bound to; the index is the set of the vectors in it,    *)
(* each with its namespace, its text and its metadata.                     *)
(***************************************************************************)
\* the namespace that create_vector_store makes from uuid.uuid4().hex[:8]
NamespaceOf(class, hex) ==
  IF class = "LegalEmbeddingStore" THEN "legal_doc_" \o hex ELSE "doc_" \o hex

\* PineconeVectorStore(embedding=..., index_name=..., namespace=namespace)
PineconeVectorStore(namespace) == [namespace |-> namespace]

\* what PineconeVectorStore.from_texts puts into the index: the chunks of
\* an EmbeddingStore are texts, those of a LegalEmbeddingStore are dicts
\* with 'content' and 'metadata'
from_texts(class, namespace, chunks) ==
  {IF class = "LegalEmbeddingStore"
   THEN [namespace |-> namespace, text |-> chunks[k].content,
         metadata |-> <<chunks[k].metadata>>]
   ELSE [namespace |-> namespace, text |-> chunks[k], metadata |-> <<>>]
   : k \in 1..Len(chunks)}

\* create_vector_store of both classes, for the eight hex digits that uuid4
\* gives; raised says whether PineconeVectorStore.from_texts raises.  The
\* result is what the method returns, self the attributes afterwards, and
\* upserted what has gone into the index
create_vector_store(class, self, chunks, hex, raised) ==
  IF chunks = <<>> \/ raised THEN [self |-> self, result |-> <<>>, upserted |-> {}]
  ELSE [self |-> [vector_store |-> <<PineconeVectorStore(NamespaceOf(class, hex))>>,
                  current_namespace |-> <<NamespaceOf(class, hex)>>],
        result |-> <<PineconeVectorStore(NamespaceOf(class, hex))>>,
        upserted |-> from_texts(class, NamespaceOf(class, hex), chunks)]

\* EmbeddingStore.get_vector_store; raised says whether the constructor of
\* PineconeVectorStore raises
get_vector_store(self, namespace, raised) ==
  LET Bound(ns) ==
        IF ns = <<>> \/ ns = <<"">> \/ raised THEN [self |-> self, result |-> <<>>]
        ELSE [self |-> [self EXCEPT !.vector_store = <<PineconeVectorStore(ns[1])>>],
              result |-> <<PineconeVectorStore(ns[1])>>]
  IN  Bound(IF namespace = <<>> \/ namespace = <<"">> THEN self.current_namespace
            ELSE namespace)

\* LegalEmbeddingStore.search_by_metadata, for a filter on one key.
\* similarity_search looks in the namespace that it is given and in the
\* namespace of the store when it is given None.  queried is that
\* namespace, result the documents found
search_by_metadata(self, index, key, value, raised) ==
  IF self.vector_store = <<>> \/ raised THEN [queried |-> <<>>, result |-> {}]
  ELSE LET Found(namespace) ==
             [queried |-> <<namespace>>,
              result |-> {v \in index : /\ v.namespace = namespace
                                        /\ v.metadata # <<>>
                                        /\ key \in DOMAIN v.metadata[1]
                                        /\ v.metadata[1][key] = value}]
       IN  Found(IF self.current_namespace = <<>> THEN self.vector_store[1].namespace
                 ELSE self.current_namespace[1])

\* the chunks that a caller hands to a LegalEmbeddingStore
LegalChunkLists ==
  {<<>>,
   <<[content |-> "An Act", metadata |-> [doc_type |-> "Act"]],
     [content |-> "1. Short title", metadata |-> [doc_type |-> "Section"]]>>}

\* the store object
Store == [vector_store |-> vector_store, current_namespace |-> current_namespace]

StoreBecomes(self) ==
  /\ vector_store' = self.vector_store
  /\ current_namespace' = self.current_namespace

InitStore ==
  /\ text = "" /\ room = 0
  /\ NothingYet

CreateVectorStore ==
  /\ \E chunks \in LegalChunkLists, hex \in DocIds, raised \in BOOLEAN :
       LET done == create_vector_store("LegalEmbeddingStore", Store, chunks, hex, raised)
       IN  /\ StoreBecomes(done.self)
           /\ pinecone' = pinecone \cup done.upserted
           /\ called' = <<Call("create_vector_store", <<chunks>>, Store, done.result)>>
  /\ UNCHANGED <<text, room, managerVars, sessionVars, outsideApp>>

GetVectorStore ==
  /\ \E namespace \in {<<>>} \cup {<<NamespaceOf("LegalEmbeddingStore", hex)>> : hex \in DocIds},
        raised \in BOOLEAN :
       LET done == get_vector_store(Store, namespace, raised)
       IN  /\ StoreBecomes(done.self)
           /\ called' = <<Call("get_vector_store", <<namespace>>, Store, done.result)>>
  /\ UNCHANGED <<text, room, managerVars, pinecone, sessionVars, outsideApp>>

SearchByMetadata ==
  /\ \E value \in {"Act", "Section"}, raised \in BOOLEAN :
       called' = <<Call("search_by_metadata", <<"doc_type", value>>, Store,
                        search_by_metadata(Store, pinecone, "doc_type", value, raised))>>
  /\ UNCHANGED <<text, room, managerVars, storeVars, sessionVars, outsideApp>>

NextStore == CreateVectorStore \/ GetVectorStore \/ SearchByMetadata

SpecStore == InitStore /\ [][NextStore]_vars

(***************************************************************************)
(* The session of the web interface: a DocumentManager, an EmbeddingStore  *)
(* and the QAChain of st.session_state.  The uploaded files are text       *)
(* files, for which process_document extracts no metadata.                 *)
(***************************************************************************)
chunk_size == 1000

\* DocumentProcessor.split_text, for a text of at most chunk_size
\* characters: the splitter gives the stripped text as the one chunk, and
\* no chunk when nothing is left of it
split_text(str) ==
  IF str = "" \/ StrStrip(str) = "" THEN <<>> ELSE <<StrStrip(str)>>

\* QAChain(vector_store): the chain is initialised only with a vector store
QAChain(store) ==
  [vector_store |-> store,
   qa_chain |-> IF store = <<>> THEN <<>> ELSE <<[retriever |-> store[1]]>>]

\* the number of chunks that the retriever of the chain returns
RetrieverK == 3

\* what the RetrievalQA chain may return for a query: the answer of the
\* model and the chunks retrieved from the namespace of its vector store
ChainResults(chain, index, question, answers) ==
  LET Found(texts) ==
        {[query |-> question, result |-> answer, source_documents |-> docs] :
           answer \in answers,
           docs \in {s \in SUBSET texts :
                       Cardinality(s) = Min({RetrieverK, Cardinality(texts)})}}
  IN  Found({v.text : v \in {w \in index : w.namespace = chain.retriever.namespace}})

\* QAChain.ask: raised says that the call of the chain raises, result is
\* what the chain returns otherwise
ask(self, question, raised, result) ==
  IF self.qa_chain = <<>>
  THEN [answer |-> "System not ready. Please load a document first."]
  ELSE IF raised THEN [answer |-> "Error: Connection error."]
  ELSE result

\* process_document(uploaded_file, doc_type), on the manager and the store
\* of the session: doc_id and hex are what uuid4 gives, raised says that
\* the creation of the vector store fails
process_document(session, uploaded_file, doc_type, doc_id, added_at, hex, raised) ==
  IF uploaded_file.text = ""
  THEN session @@ [upserted |-> {}, returned |-> <<FALSE, "Error: Could not load document">>]
  ELSE LET Added(manager, chunks) ==
             IF chunks = <<>>
             THEN [manager |-> manager, upserted |-> {},
                   returned |-> <<FALSE, "Error: Could not split document into chunks">>]
                  @@ session
             ELSE LET Created(done) ==
                        IF done.result # <<>>
                        THEN [manager |-> manager, store |-> done.self,
                              upserted |-> done.upserted,
                              qa_chain |-> <<QAChain(done.result)>>,
                              returned |-> <<TRUE, "Document processed successfully! ID: "
                                                     \o doc_id>>]
                        ELSE [manager |-> manager, store |-> done.self,
                              upserted |-> done.upserted,
                              returned |-> <<FALSE, "Error: Could not create vector store">>]
                             @@ session
                  IN  Created(create_vector_store("EmbeddingStore", session.store, chunks,
                                                  hex, raised))
       IN  Added(add_document(session.manager, uploaded_file.text, uploaded_file.name,
                              doc_type, doc_id, added_at),
                 split_text(uploaded_file.text))

\* the Make Active button of a document of the Document Manager page
make_active(session, doc_id, hex, raised) ==
  LET Reloaded(manager) ==
        LET Created(done) ==
              [manager |-> manager, store |-> done.self, upserted |-> done.upserted,
               qa_chain |-> <<QAChain(done.result)>>]
        IN  Created(create_vector_store("EmbeddingStore", session.store,
                                        split_text(get_document(manager, <<doc_id>>)[1][1]),
                                        hex, raised))
  IN  Reloaded([session.manager EXCEPT !.current_document_id = <<doc_id>>])

\* the session
Session == [manager |-> Manager, store |-> Store, qa_chain |-> qa_chain]

SessionBecomes(session) ==
  /\ ManagerBecomes(session.manager)
  /\ StoreBecomes(session.store)
  /\ pinecone' = pinecone \cup session.upserted
  /\ qa_chain' = session.qa_chain

\* the files that are uploaded: two acts, a file of one blank and an empty
\* file
Uploads ==
  {[name |-> "it_act.txt", text |-> "An Act"], [name |-> "bill.txt", text |-> " A Bill\n"],
   [name |-> "blank.txt", text |-> " "], [name |-> "empty.txt", text |-> ""]}

\* the values of uuid.uuid4().hex[:8]
Hexes == {"0a1b2c3d", "4e5f6a7b"}

Questions == {"What are the key provisions of this document?"}

Answers == {"I don't know"}

InitSession ==
  /\ text = "" /\ room = 0
  /\ NothingYet

ProcessDocument ==
  /\ clock < MaxAdds
  /\ \E uploaded_file \in Uploads, doc_id \in DocIds, hex \in Hexes, raised \in BOOLEAN :
       SessionBecomes(process_document(Session, uploaded_file, "Act", doc_id, clock + 1,
                                       hex, raised))
  /\ clock' = clock + 1
  /\ asked' = <<>>
  /\ UNCHANGED <<text, room, called, outsideApp>>

MakeActive ==
  /\ \E doc_id \in KeySet(stored_documents), hex \in Hexes, raised \in BOOLEAN :
       SessionBecomes(make_active(Session, doc_id, hex, raised))
  /\ asked' = <<>>
  /\ UNCHANGED <<text, room, clock, called, outsideApp>>

Delete ==
  /\ \E doc_id \in KeySet(stored_documents) :
       ManagerBecomes(remove_document(Manager, doc_id))
  /\ asked' = <<>>
  /\ UNCHANGED <<text, room, clock, called, storeVars, qa_chain, outsideApp>>

\* the Get Answer button of the Ask Questions page: the page names the
\* active document, asks the chain and reads 'result' and
\* 'source_documents' of what it returns
GetAnswer ==
  /\ list_documents(Manager) # <<>>
  /\ qa_chain # <<>>
  /\ \E question \in Questions, raised \in BOOLEAN :
       \E result \in IF qa_chain[1].qa_chain = <<>> THEN {<<>>}
                     ELSE ChainResults(qa_chain[1].qa_chain[1], pinecone, question, Answers) :
         LET Shown(current_meta, returned) ==
               [active |-> current_meta[1].filename, result |-> returned,
                raised |-> IF {"result", "source_documents"} \subseteq DOMAIN returned
                           THEN <<>> ELSE <<"KeyError">>]
         IN  asked' = <<Shown(get_document(Manager, current_document_id)[2],
                              ask(qa_chain[1], question, raised, result))>>
  /\ UNCHANGED <<text, room, managerVars, called, storeVars, qa_chain, outsideApp>>

NextSession == ProcessDocument \/ MakeActive \/ Delete \/ GetAnswer

SpecSession == InitSession /\ [][NextSession]_vars

(***************************************************************************)
(* Properties of ContractRiskAnalyzer                                      *)
(***************************************************************************)
\* C1: analyze_contract returns a risk_score within 0..100, and every
\* per-category score in risk_categories is within 0..100.
RiskScoreBounded ==
  analysis # <<>> =>
    /\ FracGeInt(analysis[1].risk_score, 0)
    /\ FracLeInt(analysis[1].risk_score, 100)
    /\ \A c \in DOMAIN analysis[1].risk_categories :
         analysis[1].risk_categories[c].score \in 0..100

\* a contract with more than ten matches in a category has been analysed
CapEngaged ==
  /\ analysis # <<>>
  /\ \E c \in DOMAIN analysis[1].risk_categories :
       /\ analysis[1].risk_categories[c].matches > 10
       /\ analysis[1].risk_categories[c].score = 100
  /\ FracEq(analysis[1].risk_score, Frac(100, 1))

\* word occurs in str as a whole word, whatever the case of the letters:
\* the letters agree and no word character stands right before or after
OccursAsWord(word, str) ==
  \E i \in 1..(Len(str) - Len(word) + 1) :
    /\ StrLower(SubSeq(str, i, i + Len(word) - 1)) = StrLower(word)
    /\ ~IsWordAt(str, i - 1)
    /\ ~IsWordAt(str, i + Len(word))

\* the standard provisions of which neither the name nor a synonym occurs
ExpectedMissing(str) ==
  SelectSeq(standard_provisions,
            LAMBDA p : /\ ~OccursAsWord(p, str)
                       /\ \A k \in 1..Len(ProvisionSynonyms[p]) :
                            ~OccursAsWord(ProvisionSynonyms[p][k], str))

SixScored ==
  {"ambiguity", "one_sided_terms", "liability_issues", "termination_risks",
   "confidentiality_risks", "ip_risks"}

\* C2: risk_score = min(100, M + min(20, 5k)), M the mean over the six
\* scored categories of min(100, 10 * matches) and k the number of missing
\* provisions; a category's 'matches' is the number of its match records.
RiskScoreFormula ==
  analysis # <<>> =>
    LET a == analysis[1]
        n(c) == a.risk_categories[c].matches
        capped(c) == IF 10 * n(c) < 100 THEN 10 * n(c) ELSE 100
        sum == capped("ambiguity") + capped("one_sided_terms")
               + capped("liability_issues") + capped("termination_risks")
               + capped("confidentiality_risks") + capped("ip_risks")
        k == Len(ExpectedMissing(text))
        bonus == IF 5 * k < 20 THEN 5 * k ELSE 20
        \* M + bonus is (sum + 6 * bonus) / 6
        expected == IF sum + 6 * bonus < 600 THEN Frac(sum + 6 * bonus, 6)
                    ELSE Frac(100, 1)
    IN  /\ DOMAIN a.risk_categories = SixScored
        /\ FracEq(a.risk_score, expected)
        /\ k = Len(a.missing_provisions)
        /\ n("ambiguity") = Len(a.ambiguous_clauses)
        /\ n("one_sided_terms") = Len(a.one_sided_terms)
        /\ n("liability_issues") = Len(a.liability_issues)
        /\ n("termination_risks") + n("confidentiality_risks") + n("ip_risks")
             = Len(a.other_issues)
        /\ \A c \in SixScored : a.risk_categories[c].score = capped(c)

\* a contract with a few matches and a few missing provisions was analysed:
\* neither the mean nor the increment is at its cap
MeanPlusIncrement ==
  /\ analysis # <<>>
  /\ Len(analysis[1].missing_provisions) \in 1..3
  /\ analysis[1].risk_categories["ambiguity"].matches \in 1..9
  /\ FracLtInt(analysis[1].risk_score, 100)

\* C3: find_missing_provisions returns, in the order of the standard
\* provisions, exactly the provisions of which neither the name nor a
\* synonym occurs in the text as a whole word, case-insensitively; a text
\* with "non-disclosure" and without "confidentiality" does not list
\* "confidentiality".
MissingProvisionsExact ==
  missing # <<>> =>
    /\ missing[1] = ExpectedMissing(text)
    /\ (OccursAsWord("non-disclosure", text) /\ ~OccursAsWord("confidentiality", text))
         => \A k \in 1..Len(missing[1]) : missing[1][k] # "confidentiality"

\* the provisions of a text with "non-disclosure" and without
\* "confidentiality" were listed, and some provision is missing
SynonymStandsIn ==
  /\ missing # <<>>
  /\ OccursAsWord("non-disclosure", text)
  /\ ~OccursAsWord("confidentiality", text)
  /\ missing[1] # <<>>

(***************************************************************************)
(* Properties of CitationAnalyzer.extract_citations                        *)
(***************************************************************************)
CitationTypes == {CitationTypeOrder[k] : k \in 1..Len(CitationTypeOrder)}

\* the matches of pattern k of type c in the text, in text order
MatchesOf(c, k) == FindIter(CitationCompiled[c][k], text, Flags(FALSE, FALSE))

\* where in the text the first match that yields the citation starts
FirstPosition(c, cit) ==
  Min({m.start : m \in UNION {{m \in Range(MatchesOf(c, k)) :
                                 CitationString(CitationCompiled[c][k], text, m) = cit} :
                              k \in 1..Len(patterns[c])}})

\* where the citation first stands when the matches are put pattern after
\* pattern, each pattern's matches in text order: <<pattern, match>> as one
\* number
FirstProduction(c, cit) ==
  Min({k * (Len(text) + 2) + m.start :
         <<k, m>> \in UNION {{<<k, m>> : m \in
                               {x \in Range(MatchesOf(c, k)) :
                                  CitationString(CitationCompiled[c][k], text, x) = cit}} :
                             k \in 1..Len(patterns[c])}})

\* every string of the list comes from a match, and every match's string
\* is in the list
ListsTheMatches(c, list) ==
  Range(list) = UNION {{CitationString(CitationCompiled[c][k], text, m) :
                          m \in Range(MatchesOf(c, k))} : k \in 1..Len(patterns[c])}

NoDuplicates(list) ==
  \A a, b \in 1..Len(list) : a # b => list[a] # list[b]

\* C4 as stated: each list holds every distinct citation once, ordered by
\* the position of the citation's first occurrence in the text, also across
\* the patterns of a type.
CitationsInTextOrder ==
  citations # <<>> =>
    \A c \in CitationTypes :
      /\ NoDuplicates(citations[1][c])
      /\ ListsTheMatches(c, citations[1][c])
      /\ \A a, b \in 1..Len(citations[1][c]) :
           a < b => FirstPosition(c, citations[1][c][a])
                      <= FirstPosition(c, citations[1][c][b])

\* C4 amended: each list holds every distinct citation once, ordered by the
\* citation's first place in the matches collected pattern after pattern
\* (the matches of the type's first pattern in text order, then those of
\* its second pattern, and so on).
CitationsInPatternOrder ==
  citations # <<>> =>
    \A c \in CitationTypes :
      /\ NoDuplicates(citations[1][c])
      /\ ListsTheMatches(c, citations[1][c])
      /\ \A a, b \in 1..Len(citations[1][c]) :
           a < b => FirstProduction(c, citations[1][c][a])
                      < FirstProduction(c, citations[1][c][b])

\* a text that cites AIR 2020 SC 5 twice, with an SCC citation in between,
\* was extracted: the SCC citation, of an earlier pattern, is listed first
LaterPatternListedLater ==
  /\ citations # <<>>
  /\ text = "AIR 2020 SC 5 " \o "(2020) 5 SCC 123, " \o "AIR 2020 SC 5 "
  /\ citations[1]["case_citations"] = <<"(2020) 5 SCC 123", "AIR 2020 SC 5">>

\* the non-empty groups of a match, joined by single spaces
GroupsJoined(re, m) ==
  JoinSpace(SelectSeq([g \in 1..re.ng |-> GroupN(text, m, g)], LAMBDA str : str # ""))

\* each list holds exactly the strings that Expected gives for the matches
StringsAre(Expected(_, _)) ==
  \A c \in CitationTypes :
    Range(citations[1][c]) =
      UNION {{Expected(CitationCompiled[c][k], m) : m \in Range(MatchesOf(c, k))} :
             k \in 1..Len(patterns[c])}

FullMatchUnlessSeveralGroups(re, m) ==
  IF re.ng > 1 THEN GroupsJoined(re, m) ELSE Group0(text, m)

GroupUnlessNoGroup(re, m) ==
  IF re.ng > 1 THEN GroupsJoined(re, m)
  ELSE IF re.ng = 1 THEN GroupN(text, m, 1)
  ELSE Group0(text, m)

\* C5 as stated: the citation string of a match is the non-empty groups
\* joined by a space when the pattern has more than one capture group, and
\* the full matched text otherwise.
CitationIsFullMatch ==
  citations # <<>> => StringsAre(FullMatchUnlessSeveralGroups)

\* C5 amended: the citation string of a match is the non-empty groups
\* joined by a space when the pattern has more than one capture group, the
\* text of the group when it has exactly one, and the full matched text
\* when it has none.
CitationIsGroupText ==
  citations # <<>> => StringsAre(GroupUnlessNoGroup)

\* a text with a match of each kind was extracted: no group (AIR), one
\* group (the Act without "The "), several groups of which one is empty
EachGroupCount ==
  /\ citations # <<>>
  /\ citations[1]["case_citations"] = <<"AIR 2020 SC 5">>
  /\ citations[1]["statute_citations"] = <<"Indian Contract Act, 1872">>
  /\ citations[1]["constitution_citations"] = <<"14(2)", "14 2">>

\* C6: the result has all four types as keys; a type without a match maps
\* to the empty list, and for the empty text all four lists are empty.
AllTypesPresent ==
  citations # <<>> =>
    /\ DOMAIN citations[1] = CitationTypes
    /\ \A c \in CitationTypes :
         (\A k \in 1..Len(patterns[c]) : MatchesOf(c, k) = <<>>)
           => citations[1][c] = <<>>
    /\ text = "" => \A c \in CitationTypes : citations[1][c] = <<>>

\* a text that has citations of one type only was extracted
SomeTypesEmpty ==
  /\ citations # <<>>
  /\ text # ""
  /\ citations[1]["case_citations"] # <<>>
  /\ citations[1]["section_citations"] = <<>>

(***************************************************************************)
(* Properties of CitationAnalyzer.build_citation_network                   *)
(***************************************************************************)
\* the citation keys 'category:text' of a document
KeysOf(doc) ==
  UNION {{c \o ":" \o cit : cit \in Range(citations_of(doc.text)[c])} :
         c \in CitationTypes}

DocumentNodes(G) == {n \in DOMAIN G.nodes : G.nodes[n] = "document"}

CitationNodes(G) == {n \in DOMAIN G.nodes : G.nodes[n] \in CitationTypes}

\* the edges between u and v, in either direction
EdgesBetween(G, u, v) == {<<u, v>>, <<v, u>>} \cap DOMAIN G.edges

DocIndices == 1..Len(documents)

\* C7: an edge between two distinct document nodes exists if and only if
\* the two documents share at least one citation key.
CoCitationIffShared ==
  network # <<>> =>
    \A i, j \in DocIndices :
      DocName(documents[i]) # DocName(documents[j]) =>
        (EdgesBetween(network[1], DocName(documents[i]), DocName(documents[j])) # {}
           <=> KeysOf(documents[i]) \cap KeysOf(documents[j]) # {})

RECURSIVE SumOver(_, _)
SumOver(f, S) ==
  IF S = {} THEN 0
  ELSE LET x == CHOOSE y \in S : TRUE IN f[x] + SumOver(f, S \ {x})

\* C8: for N documents with no shared citations the graph has exactly N
\* document nodes, as many citation nodes as the sum of the documents'
\* distinct citation counts, and no document-to-document edge.
NodeCountWithoutSharing ==
  (/\ network # <<>>
   /\ \A i, j \in DocIndices :
        i # j => KeysOf(documents[i]) \cap KeysOf(documents[j]) = {})
  => /\ Cardinality(DocumentNodes(network[1])) = Len(documents)
     /\ Cardinality(CitationNodes(network[1]))
          = SumOver([i \in DocIndices |-> Cardinality(KeysOf(documents[i]))],
                    DocIndices)
     /\ \A u, v \in DocumentNodes(network[1]) : <<u, v>> \notin DOMAIN network[1].edges

\* C9 as stated: two documents that share k citation keys are connected by
\* k edges.
EdgePerSharedKey ==
  network # <<>> =>
    \A i, j \in DocIndices :
      DocName(documents[i]) # DocName(documents[j]) =>
        Cardinality(EdgesBetween(network[1], DocName(documents[i]),
                                 DocName(documents[j])))
          = Cardinality(KeysOf(documents[i]) \cap KeysOf(documents[j]))

\* the names of the documents, and for a name the position of the first
\* document and the citation keys of the last document that has it
DocNames == {DocName(documents[i]) : i \in DocIndices}

FirstNamed(u) == Min({i \in DocIndices : DocName(documents[i]) = u})

RecordedKeys(u) == KeysOf(documents[Max({i \in DocIndices : DocName(documents[i]) = u})])

\* C9 amended: the graph keeps one edge per ordered pair.  Two document
\* names whose recorded citations (those of the last document of the name)
\* share at least one key are connected by exactly one edge, from the name
\* listed first to the other, tagged with one of the shared keys; names
\* that share no key are not connected.
OneEdgePerSharingPair ==
  network # <<>> =>
    \A u, v \in DocNames :
      FirstNamed(u) < FirstNamed(v) =>
        IF RecordedKeys(u) \cap RecordedKeys(v) = {}
        THEN EdgesBetween(network[1], u, v) = {}
        ELSE /\ EdgesBetween(network[1], u, v) = {<<u, v>>}
             /\ network[1].edges[<<u, v>>] \in RecordedKeys(u) \cap RecordedKeys(v)

\* the network of two documents with different names that share three
\* citation keys was built, and one edge connects them
ThreeSharedOneEdge ==
  /\ network # <<>>
  /\ Len(documents) = 2
  /\ DocName(documents[1]) # DocName(documents[2])
  /\ Cardinality(KeysOf(documents[1]) \cap KeysOf(documents[2])) = 3
  /\ Cardinality(EdgesBetween(network[1], DocName(documents[1]),
                              DocName(documents[2]))) = 1

(***************************************************************************)
(* Properties of LegalDocumentComparison.compare_documents                 *)
(***************************************************************************)
\* C10: common_sections, unique_to_doc1 and unique_to_doc2 are pairwise
\* disjoint and together are the section keys of both documents; a key is
\* common iff it is a key of both documents; section_comparisons has an
\* entry, with a similarity_score within 0..100, for exactly the common keys.
SectionsPartitioned ==
  comparison # <<>> =>
    LET r == comparison[1]
        common == Range(r.common_sections)
        only1 == Range(r.unique_to_doc1)
        only2 == Range(r.unique_to_doc2)
        keys1 == DOMAIN sections_of(doc1)
        keys2 == DOMAIN sections_of(doc2)
    IN  /\ common \cap only1 = {} /\ common \cap only2 = {} /\ only1 \cap only2 = {}
        /\ common \cup only1 \cup only2 = keys1 \cup keys2
        /\ common = keys1 \cap keys2
        /\ DOMAIN r.section_comparisons = common
        /\ \A x \in common :
             /\ FracGeInt(r.section_comparisons[x].similarity_score, 0)
             /\ FracLeInt(r.section_comparisons[x].similarity_score, 100)

\* two documents were compared that have a section in common whose texts
\* differ, and each a section the other lacks
CommonAndUnique ==
  /\ comparison # <<>>
  /\ comparison[1].unique_to_doc1 # <<>>
  /\ comparison[1].unique_to_doc2 # <<>>
  /\ \E x \in DOMAIN comparison[1].section_comparisons :
       /\ FracLtInt(comparison[1].section_comparisons[x].similarity_score, 100)
       /\ ~FracLeInt(comparison[1].section_comparisons[x].similarity_score, 0)

\* C11: compare_documents(d, d) returns empty unique_to_doc1 and
\* unique_to_doc2 lists and a similarity_score of 100 for every common
\* section.
IdenticalDocumentsFullySimilar ==
  (comparison # <<>> /\ doc1 = doc2) =>
    /\ comparison[1].unique_to_doc1 = <<>>
    /\ comparison[1].unique_to_doc2 = <<>>
    /\ \A x \in Range(comparison[1].common_sections) :
         FracEq(comparison[1].section_comparisons[x].similarity_score, Frac(100, 1))

\* a document with several sections was compared with itself
ComparedWithItself ==
  /\ comparison # <<>>
  /\ doc1 = doc2
  /\ Len(comparison[1].common_sections) >= 3

(***************************************************************************)
(* Properties of DocumentComparison                                        *)
(***************************************************************************)
\* C12: for every text d, also the empty text and a text without a word
\* character, compare_documents(d, meta, d, meta) has similarity_score 1.0.
IdenticalTextsScoreOne ==
  (similarity # <<>> /\ doc1 = doc2) =>
    FracEq(similarity[1].similarity_score, Frac(1, 1))

(***************************************************************************)
(* Properties of LegalDocumentComparison._calculate_similarity             *)
(***************************************************************************)
\* C13: the similarity is symmetric: _calculate_similarity(A, B) equals
\* _calculate_similarity(B, A) for all texts A and B.
SimilaritySymmetric ==
  ratio # <<>> => FracEq(ratio[1], calculate_similarity(doc2, doc1))

(***************************************************************************)
(* Properties of LegalDocumentComparison.extract_section                   *)
(***************************************************************************)
\* the match of strategy k for section_name in doc1, if its pattern compiles
StrategyMatch(k) ==
  LET Compiled(re) ==
        IF re.ok THEN Search(re, doc1, Flags(TRUE, TRUE)) ELSE NoMatch
  IN  Compiled(Compile(SectionPatterns(section_name)[k]))

\* the body a strategy captures: the text of the group after the header
StrategyBody(k) ==
  LET Body(m) == IF m.caps[Len(m.caps)][1] = 0 THEN ""
                 ELSE SubSeq(doc1, m.caps[Len(m.caps)][1], m.caps[Len(m.caps)][2] - 1)
  IN  Body(StrategyMatch(k))

\* C14: extract_section returns the stripped body captured by the first of
\* its three strategies that matches, and None only when none matches.
FirstStrategyWins ==
  section # <<>> =>
    LET Decide(matching) ==
          IF matching = {} THEN section[1] = SectionNone
          ELSE section[1] = SectionText(StrStrip(StrategyBody(Min(matching))))
    IN  Decide({k \in 1..3 : StrategyMatch(k).ok})

\* C19: extract_section never raises, whatever the section name: its
\* outcome is a section text or the not-found value.
ExtractSectionNeverRaises ==
  section # <<>> => section[1].status \in {"found", "none"}

(***************************************************************************)
(* Properties of LegalDocumentComparison.compare_specific_provision        *)
(***************************************************************************)
\* C15: whenever the provision is found in both documents the comparison is
\* not null and holds similarity_score, the word diff and key_differences;
\* the comparison is null only when the provision is absent from a document.
ComparedWheneverFoundInBoth ==
  (provision # <<>> /\ provision[1].status = "result") =>
    LET r == provision[1]
    IN  /\ (r.found_in_doc1 /\ r.found_in_doc2) =>
             /\ r.comparison # <<>>
             /\ {"similarity_score", "diff", "key_differences"}
                  \subseteq DOMAIN r.comparison[1]
        /\ r.comparison = <<>> => (~r.found_in_doc1 \/ ~r.found_in_doc2)

(***************************************************************************)
(* Properties of LegalDocumentComparison._extract_key_differences          *)
(***************************************************************************)
\* where the maximal runs of items with the mark start in diff
RunStarts(mark) ==
  {k \in 1..Len(diff) :
     StartsWith(diff[k], mark) /\ (k = 1 \/ ~StartsWith(diff[k - 1], mark))}

\* the length of the run that starts at k
RunLength(mark, k) ==
  Min({n \in 1..(Len(diff) - k + 1) :
         k + n > Len(diff) \/ ~StartsWith(diff[k + n], mark)})

\* the words of the runs of more than two items, each run joined by spaces,
\* in stream order
LongRuns(mark) ==
  LET long == {k \in RunStarts(mark) : RunLength(mark, k) > 2}
      nth(n) == CHOOSE k \in long : Cardinality({j \in long : j < k}) = n - 1
      words(k) == [i \in 1..RunLength(mark, k) |-> From3(diff[k + i - 1])]
  IN  [n \in 1..Cardinality(long) |-> JoinSpace(words(nth(n)))]

\* C16: 'added' (resp. 'removed') holds exactly the space-joined maximal
\* runs of consecutive '+ ' (resp. '- ') items that are longer than 2, in
\* stream order; shorter runs are discarded and any other item ends a run.
KeyDifferencesAreLongRuns ==
  key_diffs # <<>> =>
    /\ key_diffs[1].added = LongRuns("+ ")
    /\ key_diffs[1].removed = LongRuns("- ")

\* a stream with a long run of each kind, one of them at its end, and a
\* short run that is discarded
LongAndShortRuns ==
  /\ key_diffs # <<>>
  /\ key_diffs[1].added # <<>>
  /\ key_diffs[1].removed # <<>>
  /\ StartsWith(diff[Len(diff)], "+ ")
  /\ \E k \in RunStarts("+ ") : RunLength("+ ", k) <= 2

(***************************************************************************)
(* Properties of ContractRiskAnalyzer.suggest_improvements                 *)
(***************************************************************************)
TierMessages == {LowRiskAdvice, ModerateRiskAdvice, HighRiskAdvice}

\* C17: general_advice starts with exactly one tier message, chosen by
\* risk_score alone: the low-risk text below 30, the moderate-risk text from
\* 30 up to but not including 60, and the high-risk text from 60.
OneTierMessageFirst ==
  suggestions # <<>> =>
    LET advice == suggestions[1].general_advice
        score == analysis[1].risk_score
    IN  /\ Len(advice) >= 1
        /\ advice[1] = (IF score.n < 30 * score.d THEN LowRiskAdvice
                        ELSE IF score.n < 60 * score.d THEN ModerateRiskAdvice
                        ELSE HighRiskAdvice)
        /\ \A k \in 2..Len(advice) : advice[k] \notin TierMessages

\* suggestions were made for a contract of moderate risk, with further advice
ModerateTierSuggested ==
  /\ suggestions # <<>>
  /\ suggestions[1].general_advice[1] = ModerateRiskAdvice
  /\ Len(suggestions[1].general_advice) >= 2

OutputsSerializable ==
  comparison # <<>> => Serializable(CompareDocumentsType(comparison[1]))

(***************************************************************************)
(* Properties of LegalAnalysisTools                                        *)
(***************************************************************************)
\* C21 as stated: for the agreement sentence, extract_contract_details
\* yields a result without effective_date whose governing_law is "Delaware".
DetailsOmitDateAndNameLaw ==
  (text = AgreementSentence /\ details # <<>>) =>
    /\ "effective_date" \notin DOMAIN details[1]
    /\ "governing_law" \in DOMAIN details[1]
    /\ details[1]["governing_law"] = "Delaware"

\* C21: for the agreement sentence, extract_contract_details yields the
\* effective_date "January 1, 2023" with no parties, no financial terms and
\* no governing_law key; it is generate_legal_summary that yields the
\* governing_law "Delaware", with the same date in its dates.
DetailsHaveDateSummaryHasLaw ==
  text = AgreementSentence =>
    /\ details # <<>> =>
         /\ DOMAIN details[1] = {"effective_date", "parties", "financial_terms"}
         /\ details[1]["effective_date"] = "January 1, 2023"
         /\ details[1]["parties"] = <<>>
         /\ details[1]["financial_terms"] = <<>>
    /\ summary # <<>> =>
         /\ summary[1].governing_law = <<"Delaware">>
         /\ summary[1].dates = <<[type |-> "effective_date", value |-> "January 1, 2023"]>>

\* the agreement sentence has gone through both tools
AgreementSentenceProcessed ==
  text = AgreementSentence /\ details # <<>> /\ summary # <<>>

(***************************************************************************)
(* Properties of _extract_all_sections                                     *)
(***************************************************************************)
\* the headers of a document as a reader sees them: every "SECTION N." or
\* "ARTICLE N.", its title the rest of the line, its body the text from the
\* end of that line to the next header or the end of the document
HeaderLines(str) == FindIter(NextHeader, str, Flags(FALSE, FALSE))

LineEnd(str, i) == Min({j \in i..Len(str) : Ch(str, j) = "\n"} \cup {Len(str) + 1})

LineTitle(str, ms, k) == StrStrip(SubSeq(str, ms[k].end, LineEnd(str, ms[k].end) - 1))

LineBody(str, ms, k) ==
  StrStrip(SubSeq(str, LineEnd(str, ms[k].end),
                  (IF k < Len(ms) THEN ms[k + 1].start ELSE Len(str) + 1) - 1))

\* C22 as stated: every header 'SECTION|ARTICLE N. TITLE' has its body, the
\* text between the end of the header and the next header or the end of the
\* document, stored under the lower-cased TITLE: no character of the body
\* is lost to the key or included in it.  (Headers whose title a later
\* header repeats or contains are left out: their entry is overwritten.)
BodyStoredUnderTitle ==
  sections # <<>> =>
    LET Stored(ms) ==
          \A k \in 1..Len(ms) :
            (~\E j \in (k + 1)..Len(ms) :
                Contains(LineTitle(text, ms, j), LineTitle(text, ms, k)))
            => /\ StrLower(LineTitle(text, ms, k)) \in DOMAIN sections[1]
               /\ sections[1][StrLower(LineTitle(text, ms, k))] = LineBody(text, ms, k)
    IN  Once(Stored, HeaderLines(text))

\* the header matches of the scan, the title of the k-th and the headers
\* whose title contains the name c
ScannedHeaders(str) == FindIter(SectionHeader, str, Flags(FALSE, FALSE))

ScannedTitle(str, ms, k) == StrLower(StrStrip(GroupN(str, ms[k], 2)))

Holders(str, ms, c) == {k \in 1..Len(ms) : Contains(ScannedTitle(str, ms, k), c)}

\* C23: a common section name contained in the lower-cased title of a header
\* section is a key for the body of the last such header in the document;
\* the three-strategy extract_section is used only for the common names no
\* title contains, which are keys exactly when it finds a non-empty text.
AliasesThenFallback ==
  sections # <<>> =>
    LET Keyed(ms) ==
          \A c \in CommonSectionNames :
            IF Holders(text, ms, c) # {}
            THEN /\ c \in DOMAIN sections[1]
                 /\ sections[1][c] = SectionContent(text, ms[Max(Holders(text, ms, c))])
            ELSE LET Fallback(found) ==
                       IF found.status = "found" /\ found.text # ""
                       THEN c \in DOMAIN sections[1] /\ sections[1][c] = found.text
                       ELSE c \notin DOMAIN sections[1]
                 IN  Once(Fallback, extract_section(text, c))
    IN  Once(Keyed, ScannedHeaders(text))

\* two headers with different bodies contain the same common name, and
\* extract_section would have found another text for it than the one kept
LastAliasKeptFallbackSkipped ==
  /\ sections # <<>>
  /\ LET Twice(ms) ==
           \E c \in CommonSectionNames :
             /\ \E j, k \in Holders(text, ms, c) :
                  j < k /\ SectionContent(text, ms[j]) # SectionContent(text, ms[k])
             /\ extract_section(text, c).status = "found"
             /\ extract_section(text, c).text # ""
             /\ extract_section(text, c).text # sections[1][c]
     IN  Once(Twice, ScannedHeaders(text))

(***************************************************************************)
(* Properties of the match records and of the suggestions                  *)
(***************************************************************************)
\* Python's str[a:b] for 0 <= a <= b <= len(str)
Slice(str, a, b) == SubSeq(str, a + 1, b)

\* the spans <<s, e>> of the matches of category c, text[s:e] each, pattern
\* after pattern and left to right for each pattern
SpansOf(c) ==
  LET Spans(ms) == [j \in 1..Len(ms) |-> <<ms[j].start - 1, ms[j].end - 1>>]
      OfPattern(k) == Once(Spans, FindIter(RiskCompiled[c][k], text, Flags(TRUE, FALSE)))
  IN  Flatten([k \in 1..Len(risk_patterns[c]) |-> OfPattern(k)])

\* the records of a list are those of the spans, one by one
RecordsOfSpans(records, spans) ==
  /\ Len(records) = Len(spans)
  /\ \A k \in 1..Len(records) :
       LET s == spans[k][1]
           e == spans[k][2]
       IN  /\ records[k].term = Slice(text, s, e)
           /\ records[k].context
                = Slice(text, MaxOf(0, s - ContextChars), MinOf(Len(text), e + ContextChars))
           /\ Contains(records[k].context, records[k].term)
           /\ Len(records[k].context) <= (e - s) + 2 * ContextChars

\* C24: every match record of analyze_contract for a match text[s:e] has
\* term = text[s:e] and context = text[max(0, s-50):min(len(text), e+50)],
\* so the context holds the term and at most 50 characters on each side.
RecordsKeepTermAndContext ==
  analysis # <<>> =>
    /\ Once(LAMBDA sp : RecordsOfSpans(analysis[1].ambiguous_clauses, sp), SpansOf("ambiguity"))
    /\ Once(LAMBDA sp : RecordsOfSpans(analysis[1].one_sided_terms, sp),
            SpansOf("one_sided_terms"))
    /\ Once(LAMBDA sp : RecordsOfSpans(analysis[1].liability_issues, sp),
            SpansOf("liability_issues"))
    /\ Once(LAMBDA sp : RecordsOfSpans(analysis[1].other_issues, sp),
            SpansOf("termination_risks") \o SpansOf("confidentiality_risks")
            \o SpansOf("ip_risks"))

\* an analysis with a record that has 50 characters on each side of its term
\* and a record whose context is cut at a boundary of the text
FullAndClippedContexts ==
  /\ analysis # <<>>
  /\ \E k \in 1..Len(analysis[1].ambiguous_clauses) :
       Len(analysis[1].ambiguous_clauses[k].context)
         = Len(analysis[1].ambiguous_clauses[k].term) + 2 * ContextChars
  /\ \E k \in 1..Len(analysis[1].ambiguous_clauses) :
       Len(analysis[1].ambiguous_clauses[k].context)
         < Len(analysis[1].ambiguous_clauses[k].term) + 2 * ContextChars

\* C25: suggest_improvements returns min(3, number of ambiguous_clauses) +
\* number of missing_provisions specific suggestions: a rewrite suggestion
\* for each of the first three ambiguous matches, in their order, and then
\* an 'Add a <provision> provision' suggestion for each missing provision,
\* in their order.
TopThreeThenMissing ==
  (analysis # <<>> /\ suggestions # <<>>) =>
    LET specific == suggestions[1].specific_suggestions
        ambiguous == analysis[1].ambiguous_clauses
        absent == analysis[1].missing_provisions
        top == IF Len(ambiguous) < 3 THEN Len(ambiguous) ELSE 3
    IN  /\ Len(specific) = top + Len(absent)
        /\ \A k \in 1..top :
             StartsWith(specific[k], "Replace ambiguous term '" \o ambiguous[k].term \o "' ")
        /\ \A k \in 1..Len(absent) :
             StartsWith(specific[top + k], "Add a " \o absent[k] \o " provision ")

\* suggestions for an analysis with more than three ambiguous matches and
\* with missing provisions
ManyAmbiguousSomeMissing ==
  /\ analysis # <<>> /\ suggestions # <<>>
  /\ Len(analysis[1].ambiguous_clauses) > 3
  /\ analysis[1].missing_provisions # <<>>

(***************************************************************************)
(* Properties of DocumentManager                                           *)
(***************************************************************************)
\* C26: documents and document_metadata have the same keys, and
\* current_document_id is None exactly when no document is stored and is
\* otherwise the key of a stored document.
KeysAgreeCurrentStored ==
  /\ KeySet(stored_documents) = KeySet(document_metadata)
  /\ current_document_id = <<>> <=> KeySet(stored_documents) = {}
  /\ current_document_id # <<>> => current_document_id[1] \in KeySet(stored_documents)

\* the current document has been removed and another has taken its place
CurrentRemovedOthersStored ==
  /\ called # <<>>
  /\ called[1].op = "remove_document"
  /\ called[1].self.current_document_id = <<called[1].args[1]>>
  /\ stored_documents.order # <<>>

\* what is left of a dict without the key, in the order the keys came in
Without(d, key) ==
  [order |-> SelectSeq(d.order, LAMBDA k : k # key),
   at |-> [k \in {j \in DOMAIN d.at : j # key} |-> d.at[k]]]

\* the key of a dict that came into it before the others
Earliest(d) == d.order[1]

\* C27: remove_document(id) changes nothing when id is not stored; when id
\* is stored it removes that document only, leaves current_document_id as
\* it is when id is not the current document, and otherwise makes the
\* remaining document whose key came first into the dict the current one,
\* or None if none remains.  get_document and list_documents change nothing.
RemoveTouchesOnlyItsDocument ==
  called # <<>> =>
    LET before == called[1].self IN
    CASE called[1].op = "remove_document" ->
           LET id == called[1].args[1] IN
           IF id \notin KeySet(before.documents) THEN Manager = before
           ELSE /\ stored_documents = Without(before.documents, id)
                /\ document_metadata = Without(before.document_metadata, id)
                /\ before.current_document_id # <<id>>
                     => current_document_id = before.current_document_id
                /\ before.current_document_id = <<id>>
                     => current_document_id
                          = IF KeySet(before.documents) = {id} THEN <<>>
                            ELSE <<Earliest(Without(before.documents, id))>>
      [] called[1].op \in {"get_document", "list_documents"} -> Manager = before
      [] OTHER -> TRUE

\* the current document was removed while two others were stored
CurrentRemovedTwoRemain ==
  /\ called # <<>>
  /\ called[1].op = "remove_document"
  /\ called[1].self.current_document_id = <<called[1].args[1]>>
  /\ Len(stored_documents.order) = 2
  /\ called[1].args[1] \in KeySet(called[1].self.documents)

(***************************************************************************)
(* Properties of EmbeddingStore and LegalEmbeddingStore                    *)
(***************************************************************************)
\* C29: current_namespace is the namespace that vector_store is bound to
\* (both are None at first), search_by_metadata queries the namespace of
\* the store that it searches, and a call that fails leaves vector_store
\* and current_namespace as they were.
NamespaceIsTheStores ==
  /\ vector_store = <<>> => current_namespace = <<>>
  /\ vector_store # <<>> => current_namespace = <<vector_store[1].namespace>>
  /\ called # <<>> =>
       /\ called[1].op = "search_by_metadata" /\ called[1].result.queried # <<>>
            => called[1].result.queried = <<called[1].self.vector_store[1].namespace>>
       /\ called[1].op \in {"create_vector_store", "get_vector_store"}
            /\ called[1].result = <<>>
            => Store = called[1].self

(***************************************************************************)
(* Properties of the session of the web interface                          *)
(***************************************************************************)
\* the texts that a QAChain answers from
ChainTexts(chain, index) ==
  IF chain.vector_store = <<>> THEN {}
  ELSE {v.text : v \in {w \in index : w.namespace = chain.vector_store[1].namespace}}

\* C28: whenever qa_chain is set, it was built from the text of the document
\* that doc_manager.current_document_id designates.
ChainOfCurrentDocument ==
  qa_chain # <<>> =>
    /\ current_document_id # <<>>
    /\ current_document_id[1] \in KeySet(stored_documents)
    /\ ChainTexts(qa_chain[1], pinecone)
         = {split_text(stored_documents.at[current_document_id[1]])[k] :
              k \in 1..Len(split_text(stored_documents.at[current_document_id[1]]))}

\* C30: QAChain.ask returns a map with the keys 'result' and
\* 'source_documents', which its callers read without checking, so that
\* Get Answer does not raise.
AskGivesResultAndSources ==
  asked # <<>> =>
    /\ {"result", "source_documents"} \subseteq DOMAIN asked[1].result
    /\ asked[1].raised = <<>>

====
